---- MODULE Spec2Model ----
(***************************************************************************)
(* A model of blockbot's resumable iteration and persistence substrate:    *)
(*   - the paginated walks of block_followers.py / block_media_replies.py  *)
(*     over api.py's generators (SpecWalk),                                *)
(*   - the memoized gate block_follower / block_account (SpecGate),        *)
(*   - the sliding-window limiter api.RateLimit (SpecLimit),               *)
(*   - the SQLite-backed stores of collections.py (SpecStore),             *)
(*   - one store with its CSV export and import (SpecCsv),                 *)
(*   - the registry CONNECTIONS and the stores made over it (SpecReg),     *)
(*   - the user-lookup walk over chunks of its input (SpecLookup),         *)
(*   - the whitelist test should_block_user (SpecWhite).                   *)
(* Each part has its own specification; the variables of the other parts   *)
(* are held constant by it.                                                *)
(***************************************************************************)
EXTENDS Integers, Sequences, FiniteSets, TLC

VARIABLES
    \* ---- walks
    kind,          \* which walk: "followers", "tweets" or "replies"
    npages,        \* number of non-empty pages the remote side holds
    wpc,           \* position of the walk generator
    cursor_state,  \* CursorState.next_cursor / IdState.max_id (Optional[int])
    it_tok,        \* tweepy's iterator.next_cursor / iterator.max_id
    cur_page,      \* page whose items are being yielded
    idx,           \* index in cur_page of the item last yielded
    tokMem,        \* token row as the open connection sees it
    tokDisk,       \* token row as committed in the database file
    delivered,     \* history: every item yielded so far, in order
    fetchCalls,    \* history: remote page fetches issued by this invocation
    invocations,   \* history: number of walk invocations so far
    interruptions, \* history: kinds of interruption other than a fetch error
    errAfter,      \* history: pages completed when a fetch error was stored
    \* ---- gate
    gkind,         \* which gate: "follower" (block_follower) or "replier"
    gpc,           \* position inside the evaluate in progress
    gkey,          \* subject key of the evaluate in progress
    gattr,         \* attribute snapshot of that subject
    gdecision,     \* what should_block_user returned
    gblocking,     \* the subject's "blocking" attribute
    seenMem, seenDisk,       \* seen table: connection view / committed
    blockedMem, blockedDisk, \* result table: connection view / committed
    gtrace,        \* history: steps taken by the evaluate in progress
    evalCount,     \* history: number of evaluate calls
    decideCount,   \* history: per key, calls of the decision policy
    blockCount,    \* history: per key, calls of the block action
    completed,     \* history: keys with an evaluate that returned normally
    disturbed,     \* history: keys with an interrupted evaluate or lost write
    interrupted,   \* history: keys with an evaluate interrupted after its action
    gaction,       \* history: what the last block action did
    \* ---- rate limiter
    local_rate_limit, \* API.local_rate_limit
    api_root,      \* API.api_root
    now,           \* the clock read by time.time_ns(), in ticks
    limits,        \* API.limits: method -> RateLimit._deque, newest first
    admitted,      \* history: method -> every timestamp recorded, in order
    lastSleep,     \* history: duration asked of time.sleep by the last wait
    lastMethod,    \* history: method of the last wait_limit call
    waitCalls,     \* history: number of wait_limit calls
    remote,        \* history: the admission and the remote call made by the
                   \* last call of an API method, in order
    \* ---- stores and their shared connection
    connOpen,      \* Connection._conn is not None
    openCount,     \* Connection._open_connections
    inTxn,         \* sqlite3's in_transaction: uncommitted statements exist
    storeConn,     \* per store: SqliteDict._conn is not None
    tablesMem,     \* tables as the connection sees them
    tablesDisk,    \* tables committed in the database file
    rowsMem,       \* store -> key -> Optional value, as the connection sees
    rowsDisk,      \* the same, committed in the database file
    expected,      \* history: store -> key -> value of the last write that
                   \* returned
    durable,       \* history: rowsMem at the last commit
    used,          \* history: stores that ran a statement in this process
                   \* and were not closed since
    lastOp,        \* history: the last operation and its result
    opCount,       \* history: number of store operations
    \* ---- one store and its CSV serialization
    csvMem,        \* rows of the table as the connection sees them
    csvDisk,       \* rows of the table committed in the database file
    csvTxn,        \* sqlite3's in_transaction
    csvFile,       \* the file to_csv wrote last, if any (Optional)
    csvExported,   \* history: csvMem when that file was written
    csvLast,       \* history: the last operation on the store
    csvOps,        \* history: number of operations on the store
    csvMap,        \* history: key -> value of the last set not yet deleted
    csvArg,        \* history: key/header and the answer of the last call
    csvCursor,     \* Connection._cursor: the rows it has still to hand out
    csvIt,         \* the items() generator in use: [state, out, snap]
    \* ---- the registry of connections
    CONNECTIONS,   \* collections.CONNECTIONS: path -> Connection object
    connObjs,      \* the Connection objects made so far: [path, handle, count]
    sdicts,        \* the SqliteDict objects: [made, obj, bound, schema, path]
    handles,       \* the live sqlite3 handles: [id, path]
    handleSeq,     \* history: number of sqlite3.connect calls
    diskSchema,    \* path -> schema of the table in that file (Optional)
    regLast,       \* history: the last operation
    regOps,        \* history: number of operations
    \* ---- the user-lookup walk
    users,         \* the iterable handed to lookup_users
    missing,       \* the users the remote side does not return
    page_state,    \* PageState.current_page
    lkpc,          \* "none", "idle", "running", "yield", "done", "raised"
    lkNext,        \* the range iterator of util.chunks: next start offset
    lkChunk,       \* offset of the chunk being handed out, -1 if none
    lkResp,        \* items of the response not handed out yet
    lkStart,       \* history: current_page read when the walk was made
    lkFetched,     \* history: offsets requested by this walk
    lkOut,         \* history: items handed out by this walk
    lkWalks,       \* history: number of walks made
    \* ---- the whitelist test
    user,          \* the account: [verified, following, follow_request_sent]
    relMe,         \* show_friendship(user, me): [following, followed_by]
    whitelist,     \* show_friendship(user, w) for each whitelisted w
    kwds,          \* the keywords: name -> Optional BOOL
    shpc,          \* "call", "returned"
    result,        \* what should_block_user returned
    lookups,       \* history: the friendship lookups issued, in order
    \* ---- a bulk operation: the nested loops over walks
    bmode,         \* "followers" (block_followers) or "media"
    bpages,        \* pages the remote side holds for each subject
    wstat,         \* each subject's walk: "new", "progress", "terminal",
                   \* "errored", "abandoned"
    bfetched,      \* history: requests issued for each subject
    bcur,          \* how many subjects the outer loop has handed out
    bpc            \* "loop", "eval", "done", "raised"

walkVars == <<kind, npages, wpc, cursor_state, it_tok, cur_page, idx, tokMem,
              tokDisk, delivered, fetchCalls, invocations, interruptions,
              errAfter>>
gateVars == <<gkind, gpc, gkey, gattr, gdecision, gblocking, seenMem, seenDisk,
              blockedMem, blockedDisk, gtrace, evalCount, decideCount,
              blockCount, completed, disturbed, interrupted, gaction>>
limitVars == <<local_rate_limit, api_root, now, limits, admitted, lastSleep,
               lastMethod, waitCalls, remote>>
storeVars == <<connOpen, openCount, inTxn, storeConn, tablesMem, tablesDisk,
               rowsMem, rowsDisk, expected, durable, used, lastOp, opCount>>
csvVars == <<csvMem, csvDisk, csvTxn, csvFile, csvExported, csvLast, csvOps,
             csvMap, csvArg, csvCursor, csvIt>>
regVars == <<CONNECTIONS, connObjs, sdicts, handles, handleSeq, diskSchema,
             regLast, regOps>>
lookupVars == <<users, missing, page_state, lkpc, lkNext, lkChunk, lkResp,
                lkStart, lkFetched, lkOut, lkWalks>>
whiteVars == <<user, relMe, whitelist, kwds, shpc, result, lookups>>
bulkVars == <<bmode, bpages, wstat, bfetched, bcur, bpc>>
vars == <<walkVars, gateVars, limitVars, storeVars, csvVars, regVars,
          lookupVars, whiteVars, bulkVars>>

(***************************************************************************)
(* Optional values: Python's None is the empty sequence, a value v is <<v>>.*)
(***************************************************************************)
None == <<>>
Some(v) == <<v>>
IsPrefix(s, t) == Len(s) <= Len(t) /\ SubSeq(t, 1, Len(s)) = s

\* ------------------------------------------------------------------ walks

START_MAX_ID == None
END_MAX_ID == 0
START_CURSOR == -1
START_PAGE == 0
END_CURSOR == 0

MaxPages == 2
PageSize == 2
MaxInvocations == 3

WalkKinds == {"followers", "tweets", "replies"}
IsCursorKind(k) == k = "followers"

\* The state object a walk starts with: CursorState() or IdState().
StartToken(k) == IF IsCursorKind(k) THEN Some(START_CURSOR) ELSE START_MAX_ID
EndToken(k) == IF IsCursorKind(k) THEN Some(END_CURSOR) ELSE Some(END_MAX_ID)

\* str(x) as written to a TEXT column: the decimal digits of an int, or the
\* word None.
StrOf(v) == IF v = None THEN [digits |-> FALSE, n |-> 0]
            ELSE [digits |-> TRUE, n |-> v[1]]
\* int(text) succeeds exactly on decimal digits.
IntParses(t) == t.digits
IntOf(t) == Some(t.n)

\* The remote side: pages 1..n of PageSize items each.  A cursor walk names
\* page p > 1 by the cursor p and the first page by -1; the cursor after the
\* last page is 0.  A watermark walk names a page by the largest id it may
\* hold: items have ids n*PageSize+1 down to 2, newest first.
AllItems(n) == [i \in 1..(n * PageSize) |->
                  <<((i - 1) \div PageSize) + 1, ((i - 1) % PageSize) + 1>>]
MaxIdAfter(p, n) == (n - p) * PageSize + 1
PageOfToken(k, tok, n) ==
    IF IsCursorKind(k)
    THEN (IF tok[1] = START_CURSOR THEN 1 ELSE tok[1])
    ELSE (IF tok = None THEN 1 ELSE n - ((tok[1] - 1) \div PageSize) + 1)
NextToken(k, p, n) ==
    IF IsCursorKind(k)
    THEN (IF p >= n THEN Some(END_CURSOR) ELSE Some(p + 1))
    ELSE Some(MaxIdAfter(p, n))
\* tweepy.Cursor(..., cursor=c): "start_cursor or -1"; max_id is passed on.
IteratorStart(k, tok) ==
    IF IsCursorKind(k) /\ tok = Some(0) THEN Some(START_CURSOR) ELSE tok
\* CursorIterator.next() stops without a request once next_cursor is 0.
IteratorExhausted(k, tok) == IsCursorKind(k) /\ tok = Some(END_CURSOR)
\* Whether the generator of api.py swallows an authorization error.
SwallowsAuth_None(k) == FALSE
SwallowsAuth(k) == k \in {"followers", "tweets"}

\* followers/tweets/replies: "if state == END: return" before any request.
IsFinished_Never(k, cs) == FALSE
IsFinished(k, cs) == cs = EndToken(k)

\* The token the wrapper stores when a TweepError reaches it: the state object
\* as api.py last left it.
ErrorToken_Restart(k, cs) == StartToken(k)
ErrorToken(k, cs) == cs

\* The state object while the items of a fetched page are being yielded:
\* api.py assigns iterator's marker only after "yield from page".
YieldingState_Eager(cs, nxt) == nxt
YieldingState(cs, nxt) == cs

MemReset ==
    /\ cursor_state' = StartToken(kind)
    /\ it_tok' = None
    /\ cur_page' = 0
    /\ idx' = 0
    /\ fetchCalls' = 0

\* The generator of api.py ends normally (or swallowed an authorization
\* error): the wrapper stores the terminal sentinel.
WalkFinish(cs, calls, intr) ==
    /\ wpc' = "done"
    /\ tokMem' = Some(StrOf(EndToken(kind)))
    /\ cursor_state' = cs
    /\ fetchCalls' = calls
    /\ interruptions' = intr
    /\ UNCHANGED <<it_tok, cur_page, idx, delivered, errAfter>>

\* A TweepError reaches the wrapper: it stores the state and re-raises.
WalkError(cs, calls, done) ==
    /\ wpc' = "raised"
    /\ tokMem' = Some(StrOf(ErrorToken(kind, cs)))
    /\ cursor_state' = cs
    /\ fetchCalls' = calls
    /\ errAfter' = errAfter \cup {done}
    /\ UNCHANGED <<it_tok, cur_page, idx, delivered, interruptions>>

\* The same for an authorization error that api.py did not swallow.
WalkAuthError(cs, calls, done) ==
    /\ wpc' = "raised"
    /\ tokMem' = Some(StrOf(ErrorToken(kind, cs)))
    /\ cursor_state' = cs
    /\ fetchCalls' = calls
    /\ errAfter' = errAfter \cup {done}
    /\ interruptions' = interruptions \cup {"auth_raised"}
    /\ UNCHANGED <<it_tok, cur_page, idx, delivered>>

\* "for page in cursor.pages()": one turn of the loop of api.py, with the state
\* object holding cs and tweepy's iterator holding it.
FetchLoop(cs, it, calls) ==
    IF IteratorExhausted(kind, it)
    THEN WalkFinish(cs, calls, interruptions)
    ELSE LET p == PageOfToken(kind, it, npages) IN
         \/ \* the request succeeds
            IF p > npages
            THEN WalkFinish(cs, calls + 1, interruptions)
            ELSE /\ wpc' = "yield"
                 /\ it_tok' = NextToken(kind, p, npages)
                 /\ cur_page' = p
                 /\ idx' = 1
                 /\ delivered' = Append(delivered, <<p, 1>>)
                 /\ cursor_state' = YieldingState(cs, NextToken(kind, p, npages))
                 /\ fetchCalls' = calls + 1
                 /\ UNCHANGED <<tokMem, interruptions, errAfter>>
         \/ \* the request fails with an authorization error
            IF SwallowsAuth(kind)
            THEN WalkFinish(cs, calls + 1, interruptions \cup {"auth"})
            ELSE WalkAuthError(cs, calls + 1, p - 1)
         \/ \* the request fails with another TweepError
            WalkError(cs, calls + 1, p - 1)

\* First next() on the generator: followers()/tweets()/replies() up to the
\* first yield.
WalkStart ==
    /\ UNCHANGED <<gateVars, limitVars, storeVars, csvVars, regVars,
                   lookupVars, whiteVars, bulkVars>>
    /\ wpc = "idle"
    /\ invocations < MaxInvocations
    /\ invocations' = invocations + 1
    /\ UNCHANGED <<kind, npages, tokDisk>>
    /\ IF tokMem # None /\ ~IntParses(tokMem[1])
       THEN \* int(previous[...]) raises ValueError
            /\ wpc' = "crashed"
            /\ UNCHANGED <<cursor_state, it_tok, cur_page, idx, tokMem,
                           delivered, fetchCalls, interruptions, errAfter>>
       ELSE LET cs == IF tokMem = None THEN StartToken(kind)
                      ELSE IntOf(tokMem[1]) IN
            IF IsFinished(kind, cs)
            THEN /\ wpc' = "done"
                 /\ cursor_state' = cs
                 /\ UNCHANGED <<it_tok, cur_page, idx, tokMem, delivered,
                                fetchCalls, interruptions, errAfter>>
            ELSE FetchLoop(cs, IteratorStart(kind, cs), 0)

\* "yield from page" has handed out the last item of the page.
PageDone_Early(i) == i >= 1
PageDone(i) == ~(i < PageSize)

\* A later next(): the next item of the page, or the state update and the
\* next turn of the loop.
WalkPull ==
    /\ UNCHANGED <<gateVars, limitVars, storeVars, csvVars, regVars,
                   lookupVars, whiteVars, bulkVars>>
    /\ wpc = "yield"
    /\ UNCHANGED <<kind, npages, tokDisk, invocations>>
    /\ IF ~PageDone(idx)
       THEN /\ idx' = idx + 1
            /\ delivered' = Append(delivered, <<cur_page, idx + 1>>)
            /\ UNCHANGED <<wpc, cursor_state, it_tok, cur_page, tokMem,
                           fetchCalls, interruptions, errAfter>>
       ELSE FetchLoop(it_tok, it_tok, fetchCalls)

\* The consumer raises while it holds an item: the generator is dropped at its
\* yield, no except clause of the walk runs.
WalkAbandon ==
    /\ UNCHANGED <<gateVars, limitVars, storeVars, csvVars, regVars,
                   lookupVars, whiteVars, bulkVars>>
    /\ wpc = "yield"
    /\ wpc' = "abandoned"
    /\ interruptions' = interruptions \cup {"abort"}
    /\ UNCHANGED <<kind, npages, cursor_state, it_tok, cur_page, idx, tokMem,
                   tokDisk, delivered, fetchCalls, invocations, errAfter>>

\* daemon.as_daemon's loop calls the bulk operation again in the same process.
WalkReinvoke ==
    /\ UNCHANGED <<gateVars, limitVars, storeVars, csvVars, regVars,
                   lookupVars, whiteVars, bulkVars>>
    /\ wpc \in {"done", "raised", "abandoned"}
    /\ wpc' = "idle"
    /\ MemReset
    /\ UNCHANGED <<kind, npages, tokMem, tokDisk, delivered, invocations,
                   interruptions, errAfter>>

\* The process exits in an orderly way (atexit closes every store, which
\* commits) and a new process starts.
WalkExitRestart ==
    /\ UNCHANGED <<gateVars, limitVars, storeVars, csvVars, regVars,
                   lookupVars, whiteVars, bulkVars>>
    /\ wpc \in {"done", "raised", "abandoned", "crashed"}
    /\ wpc' = "idle"
    /\ tokDisk' = tokMem
    /\ MemReset
    /\ UNCHANGED <<kind, npages, tokMem, delivered, invocations,
                   interruptions, errAfter>>

\* The process is killed: nothing is committed; a new process starts.
WalkKill ==
    /\ UNCHANGED <<gateVars, limitVars, storeVars, csvVars, regVars,
                   lookupVars, whiteVars, bulkVars>>
    /\ wpc # "idle"
    /\ wpc' = "idle"
    /\ tokMem' = tokDisk
    /\ MemReset
    /\ interruptions' = interruptions
                          \cup {IF wpc = "yield" THEN "kill" ELSE "kill_end"}
    /\ UNCHANGED <<kind, npages, tokDisk, delivered, invocations, errAfter>>

WalkInit ==
    /\ kind \in WalkKinds
    /\ npages \in 0..MaxPages
    /\ wpc = "idle"
    /\ cursor_state = StartToken(kind)
    /\ it_tok = None
    /\ cur_page = 0
    /\ idx = 0
    /\ tokMem = None
    /\ tokDisk = None
    /\ delivered = <<>>
    /\ fetchCalls = 0
    /\ invocations = 0
    /\ interruptions = {}
    /\ errAfter = {}

WalkNext ==
    \/ WalkStart
    \/ WalkPull
    \/ WalkAbandon
    \/ WalkReinvoke
    \/ WalkExitRestart
    \/ WalkKill

\* daemon.as_daemon around one subject's walk.  The page requests fail with
\* connection errors only (a TweepError 'Failed to send request', which the
\* walk's except clause sees first), and only while an invocation is left:
\* the failures are finitely many.
OnlyConnectionErrors ==
    /\ interruptions' = interruptions
    /\ wpc' = "raised" => invocations' < MaxInvocations

\* method(*args, **kwds) starts the walk.
RetryStart == WalkStart /\ OnlyConnectionErrors

\* The bulk operation consumes the walk; its evaluate raises nothing.
RetryPull == WalkPull /\ OnlyConnectionErrors

\* "except tweepy.TweepError: if api.is_connection_error(error):
\* handle_connection_error(sleep_time)", and the next turn of "while True".
RetryAgain == wpc = "raised" /\ WalkReinvoke

\* method returned: "break", main returns normally.
RetryReturn ==
    /\ UNCHANGED <<gateVars, limitVars, storeVars, csvVars, regVars,
                   lookupVars, whiteVars, bulkVars>>
    /\ wpc = "done"
    /\ wpc' = "returned"
    /\ UNCHANGED <<kind, npages, cursor_state, it_tok, cur_page, idx, tokMem,
                   tokDisk, delivered, fetchCalls, invocations,
                   interruptions, errAfter>>

\* "except Exception as error: ... raise": main ends with the error.
RetryRaise ==
    /\ UNCHANGED <<gateVars, limitVars, storeVars, csvVars, regVars,
                   lookupVars, whiteVars, bulkVars>>
    /\ wpc = "crashed"
    /\ wpc' = "failed"
    /\ UNCHANGED <<kind, npages, cursor_state, it_tok, cur_page, idx, tokMem,
                   tokDisk, delivered, fetchCalls, invocations,
                   interruptions, errAfter>>

RetryNext ==
    \/ RetryStart
    \/ RetryPull
    \/ RetryAgain
    \/ RetryReturn
    \/ RetryRaise


\* ------------------------------------------------------------------- gate

Keys == {"u1", "u2"}
MaxAttr == 2
MaxEvals == 3

GateKinds == {"follower", "replier"}

\* INSERT OR REPLACE INTO a table whose key column is its PRIMARY KEY.
Upsert_Insert(table, row) == table \cup {row}
Upsert(table, row) == {r \in table : r.key # row.key} \cup {row}
\* SqliteDict.__contains__: a row with that primary key exists.
Contains(table, k) == \E r \in table : r.key = k

\* "if str(follower.id) in FOLLOWERS_SEEN: return"
AlreadySeen_Never(table, k) == FALSE
AlreadySeen(table, k) == Contains(table, k)

\* evaluate is called for subject k: block_follower / block_account up to the
\* seen check.
GateEnter ==
    /\ UNCHANGED <<walkVars, limitVars, storeVars, csvVars, regVars,
                   lookupVars, whiteVars, bulkVars>>
    /\ gpc = "idle"
    /\ evalCount < MaxEvals
    /\ evalCount' = evalCount + 1
    /\ \E k \in Keys, a \in 1..MaxAttr, b \in BOOLEAN :
         /\ gkey' = k
         /\ gattr' = a
         /\ gblocking' = b
         /\ IF AlreadySeen(seenMem, k)
            THEN gpc' = "idle" /\ gtrace' = <<"skip">>
            ELSE gpc' = "decide" /\ gtrace' = <<>>
         /\ UNCHANGED <<gkind, gdecision, seenMem, seenDisk, blockedMem,
                        blockedDisk, decideCount, blockCount, completed,
                        disturbed, interrupted, gaction>>

\* The places of an evaluate from the block action to the seen write.
AfterAction == {"act", "record", "seen"}

\* An error leaves the evaluate in progress.
GateRaise ==
    /\ gpc' = "idle"
    /\ disturbed' = disturbed \cup {gkey}
    /\ interrupted' = IF gpc \in AfterAction THEN interrupted \cup {gkey}
                      ELSE interrupted
    /\ UNCHANGED <<gkind, gkey, gattr, gblocking, seenMem, seenDisk,
                   blockedMem, blockedDisk, evalCount, completed>>

\* whitelist.should_block_user: returns its verdict, or a remote friendship
\* lookup raises.
GateDecide ==
    /\ UNCHANGED <<walkVars, limitVars, storeVars, csvVars, regVars,
                   lookupVars, whiteVars, bulkVars>>
    /\ gpc = "decide"
    /\ decideCount' = [decideCount EXCEPT ![gkey] = @ + 1]
    /\ gtrace' = Append(gtrace, "decide")
    /\ UNCHANGED <<blockCount, gaction>>
    /\ \/ \E d \in BOOLEAN :
            /\ gdecision' = d
            /\ gpc' = IF d THEN "act" ELSE "seen"
            /\ UNCHANGED <<gkind, gkey, gattr, gblocking, seenMem, seenDisk,
                           blockedMem, blockedDisk, evalCount, completed,
                           disturbed, interrupted>>
       \/ GateRaise /\ UNCHANGED gdecision

\* "if not getattr(follower, 'blocking', False)"
ActionGuard_Always(blocking) == TRUE
ActionGuard(blocking) == ~blocking

\* What tweepy's create_block may do.
BlockOutcomes == {"ok", "not_found", "error"}
\* api.create_block: "if is_user_not_found_error(error): return", else raise.
Swallowed_All(outcome) == TRUE
Swallowed(outcome) == outcome = "not_found"

\* "if not getattr(follower, 'blocking', False): api.create_block(...)".
\* api.create_block swallows user-not-found and re-raises anything else.
GateAct ==
    /\ UNCHANGED <<walkVars, limitVars, storeVars, csvVars, regVars,
                   lookupVars, whiteVars, bulkVars>>
    /\ gpc = "act"
    /\ UNCHANGED <<gdecision, decideCount>>
    /\ IF ~ActionGuard(gblocking)
       THEN /\ gpc' = "record"
            /\ gaction' = "none"
            /\ UNCHANGED <<gkind, gkey, gattr, gblocking, seenMem, seenDisk,
                           blockedMem, blockedDisk, gtrace, evalCount,
                           blockCount, completed, disturbed, interrupted>>
       ELSE /\ blockCount' = [blockCount EXCEPT ![gkey] = @ + 1]
            /\ gtrace' = Append(gtrace, "block")
            /\ \E outcome \in BlockOutcomes :
                  /\ gaction' = outcome
                  /\ IF outcome = "ok" \/ Swallowed(outcome)
                     THEN \* the block is created, or the error is swallowed
                          /\ gpc' = "record"
                          /\ UNCHANGED <<gkind, gkey, gattr, gblocking,
                                         seenMem, seenDisk, blockedMem,
                                         blockedDisk, evalCount, completed,
                                         disturbed, interrupted>>
                     ELSE GateRaise

\* The two writes in the wrong order: the seen row first.
GateRecord_SeenFirst ==
    /\ UNCHANGED <<walkVars, limitVars, storeVars, csvVars, regVars,
                   lookupVars, whiteVars, bulkVars>>
    /\ gpc = "record"
    /\ UNCHANGED <<gdecision, decideCount, blockCount>>
    /\ gpc' = "seen"
    /\ seenMem' = Upsert(seenMem, [key |-> gkey])
    /\ gtrace' = Append(gtrace, "record")
    /\ UNCHANGED <<gkind, gkey, gattr, gblocking, blockedMem, seenDisk,
                   blockedDisk, evalCount, completed, disturbed, interrupted,
                   gaction>>

\* "FOLLOWERS_BLOCKED[str(follower.id)] = {...}"; block_account first calls
\* extract_media_url, which raises ValueError on media it does not know.
GateRecord ==
    /\ UNCHANGED <<walkVars, limitVars, storeVars, csvVars, regVars,
                   lookupVars, whiteVars, bulkVars>>
    /\ gpc = "record"
    /\ UNCHANGED <<gdecision, decideCount, blockCount, gaction>>
    /\ \/ /\ gpc' = "seen"
          /\ blockedMem' = Upsert(blockedMem, [key |-> gkey, attr |-> gattr])
          /\ gtrace' = Append(gtrace, "record")
          /\ UNCHANGED <<gkind, gkey, gattr, gblocking, seenMem, seenDisk,
                         blockedDisk, evalCount, completed, disturbed,
                         interrupted>>
       \/ /\ gkind = "replier"
          /\ GateRaise
          /\ UNCHANGED gtrace

\* "FOLLOWERS_SEEN[str(follower.id)] = {...}", the last statement.
GateSeen ==
    /\ UNCHANGED <<walkVars, limitVars, storeVars, csvVars, regVars,
                   lookupVars, whiteVars, bulkVars>>
    /\ gpc = "seen"
    /\ gpc' = "idle"
    /\ seenMem' = Upsert(seenMem, [key |-> gkey])
    /\ gtrace' = Append(gtrace, "seen")
    /\ completed' = completed \cup {gkey}
    /\ UNCHANGED <<gkind, gkey, gattr, gdecision, gblocking, seenDisk,
                   blockedMem, blockedDisk, evalCount, decideCount,
                   blockCount, disturbed, interrupted, gaction>>

\* The process exits in an orderly way between two evaluates (atexit closes
\* the stores, which commits) and a new process starts.
GateExitRestart ==
    /\ UNCHANGED <<walkVars, limitVars, storeVars, csvVars, regVars,
                   lookupVars, whiteVars, bulkVars>>
    /\ gpc = "idle"
    /\ seenDisk # seenMem \/ blockedDisk # blockedMem
    /\ seenDisk' = seenMem
    /\ blockedDisk' = blockedMem
    /\ UNCHANGED <<gkind, gpc, gkey, gattr, gdecision, gblocking, seenMem,
                   blockedMem, gtrace, evalCount, decideCount, blockCount,
                   completed, disturbed, interrupted, gaction>>

\* An exit is raised inside an evaluate (KeyboardInterrupt, SystemExit, an
\* error of the store in the seen write): the evaluate is left where it is,
\* the exit hooks close the stores, which commits, and a new process starts.
GateInterrupt ==
    /\ UNCHANGED <<walkVars, limitVars, storeVars, csvVars, regVars,
                   lookupVars, whiteVars, bulkVars>>
    /\ gpc # "idle"
    /\ gpc' = "idle"
    /\ seenDisk' = seenMem
    /\ blockedDisk' = blockedMem
    /\ disturbed' = disturbed \cup {gkey}
    /\ interrupted' = IF gpc \in AfterAction THEN interrupted \cup {gkey}
                      ELSE interrupted
    /\ UNCHANGED <<gkind, gkey, gattr, gdecision, gblocking, seenMem,
                   blockedMem, gtrace, evalCount, decideCount, blockCount,
                   completed, gaction>>

\* The process is killed: uncommitted rows are gone when the next one starts.
GateKill ==
    /\ UNCHANGED <<walkVars, limitVars, storeVars, csvVars, regVars,
                   lookupVars, whiteVars, bulkVars>>
    /\ gpc # "idle" \/ seenDisk # seenMem \/ blockedDisk # blockedMem
    /\ gpc' = "idle"
    /\ seenMem' = seenDisk
    /\ blockedMem' = blockedDisk
    /\ disturbed' = disturbed
                      \cup {k \in Keys : Contains(seenMem, k)
                                           /\ ~Contains(seenDisk, k)}
                      \cup (IF gpc # "idle" THEN {gkey} ELSE {})
    /\ interrupted' = IF gpc \in AfterAction THEN interrupted \cup {gkey}
                      ELSE interrupted
    /\ UNCHANGED <<gkind, gkey, gattr, gdecision, gblocking, seenDisk,
                   blockedDisk, gtrace, evalCount, decideCount, blockCount,
                   completed, gaction>>

GateInit ==
    /\ gkind \in GateKinds
    /\ gpc = "idle"
    /\ gkey = "u1"
    /\ gattr = 1
    /\ gdecision = FALSE
    /\ gblocking = FALSE
    /\ seenMem = {}
    /\ seenDisk = {}
    /\ blockedMem = {}
    /\ blockedDisk = {}
    /\ gtrace = <<>>
    /\ evalCount = 0
    /\ decideCount = [k \in Keys |-> 0]
    /\ blockCount = [k \in Keys |-> 0]
    /\ completed = {}
    /\ disturbed = {}
    /\ interrupted = {}
    /\ gaction = "none"

GateNext ==
    \/ GateEnter
    \/ GateDecide
    \/ GateAct
    \/ GateRecord
    \/ GateSeen
    \/ GateExitRestart
    \/ GateInterrupt
    \/ GateKill

\* ----------------------------------------------------------- rate limiter

\* The budgets, scaled down: get_followers is TimeLimit(15, 15 min) in both
\* tables, create_block is TimeLimit(50, 15 min) in API_V2_LIMITS only.
FollowersLimit == 2
BlockLimit == 1
Interval == 3
MaxTime == 8
MaxWaitCalls == 5
MaxOversleep == 1

Methods == {"get_followers", "create_block"}
ApiRoots == {"/1.1", "/2"}

TimeLimit(l, i) == [limit |-> l, interval |-> i]
API_V11_LIMITS == [m \in {"get_followers"} |-> TimeLimit(FollowersLimit, Interval)]
API_V2_LIMITS ==
    [m \in Methods |-> IF m = "get_followers"
                       THEN TimeLimit(FollowersLimit, Interval)
                       ELSE TimeLimit(BlockLimit, Interval)]

\* API.wait_limit's choice of budget: None when it returns without waiting.
BudgetOf_Default(local, root, m) == Some(TimeLimit(BlockLimit, Interval))
BudgetOf(local, root, m) ==
    IF ~local THEN None
    ELSE IF root = "/1.1"
         THEN (IF m \in DOMAIN API_V11_LIMITS THEN Some(API_V11_LIMITS[m])
               ELSE None)
         ELSE (IF m \in DOMAIN API_V2_LIMITS THEN Some(API_V2_LIMITS[m])
               ELSE IF m \in DOMAIN API_V11_LIMITS
                    THEN Some(API_V11_LIMITS[m])
                    ELSE None)

\* "if len(self._deque) == self._limit"
DequeFull_Never(dq, limit) == Len(dq) > limit
DequeFull(dq, limit) == Len(dq) = limit
\* "start = self._deque.pop()": the right-most, oldest entry.
PopOldest_Newest(dq) == [start |-> dq[1], rest |-> SubSeq(dq, 2, Len(dq))]
PopOldest(dq) == [start |-> dq[Len(dq)], rest |-> SubSeq(dq, 1, Len(dq) - 1)]
\* "self._deque.appendleft(...)" on a deque(maxlen=limit): a full deque drops
\* its right-most entry.
AppendLeft(dq, t, limit) ==
    SubSeq(<<t>> \o dq, 1, IF Len(dq) + 1 > limit THEN limit ELSE Len(dq) + 1)
\* "time.sleep(max(wait_time, 0.0))" with wait_time = interval - diff.
SleepFor(interval, diff) ==
    IF interval - diff > 0 THEN interval - diff ELSE 0

\* The methods class API defines; each goes through API.call.
ApiMethods ==
    {"user_timeline", "get_user", "me", "get_followers", "get_friendship",
     "verify_credentials", "rate_limit_status", "create_block",
     "destroy_block", "get_blocks", "search_tweets"}

Event(e, m) == [ev |-> e, op |-> m]

\* "self.limits[method]": the history an operation name is counted in.
LimitKey_Shared(m) == "get_followers"
LimitKey(m) == m

\* API.call(method): API.wait_limit(method) with RateLimit.wait(), then the
\* tweepy method; time.sleep returns after at least the time asked.
WaitLimit ==
    /\ UNCHANGED <<walkVars, gateVars, storeVars, csvVars, regVars,
                   lookupVars, whiteVars, bulkVars>>
    /\ waitCalls < MaxWaitCalls
    /\ waitCalls' = waitCalls + 1
    /\ UNCHANGED <<local_rate_limit, api_root>>
    /\ \E m \in Methods :
         /\ lastMethod' = m
         /\ remote' = <<Event("admit", m), Event("fetch", m)>>
         /\ LET b == BudgetOf(local_rate_limit, api_root, m) IN
            IF b = None
            THEN /\ lastSleep' = 0
                 /\ UNCHANGED <<now, limits, admitted>>
            ELSE LET limit == b[1].limit
                     interval == b[1].interval
                     key == LimitKey(m)
                     dq == IF key \in DOMAIN limits THEN limits[key]
                           ELSE <<>>
                     full == DequeFull(dq, limit)
                     asked == IF full
                              THEN SleepFor(interval, now - PopOldest(dq).start)
                              ELSE 0
                     rest == IF full THEN PopOldest(dq).rest ELSE dq
                 IN  \E slept \in asked..(asked + MaxOversleep) :
                       /\ full \/ slept = asked
                       /\ now + slept <= MaxTime
                       /\ now' = now + slept
                       /\ lastSleep' = asked
                       /\ limits' = [x \in DOMAIN limits \cup {key} |->
                                       IF x = key
                                       THEN AppendLeft(rest, now + slept, limit)
                                       ELSE limits[x]]
                       /\ admitted' = [admitted EXCEPT
                                         ![m] = Append(@, now + slept)]

\* api.lookup_users' bind_api calls api.lookup_users on the API object,
\* which class API does not define: API.__getattr__ hands out tweepy's own
\* method, and the chunk is fetched without API.call.
LookupUsers ==
    /\ UNCHANGED <<walkVars, gateVars, storeVars, csvVars, regVars,
                   lookupVars, whiteVars, bulkVars>>
    /\ "lookup_users" \notin ApiMethods
    /\ remote' = <<Event("fetch", "lookup_users")>>
    /\ UNCHANGED <<local_rate_limit, api_root, now, limits, admitted,
                   lastSleep, lastMethod, waitCalls>>

\* Time passes between two calls.
Tick ==
    /\ UNCHANGED <<walkVars, gateVars, storeVars, csvVars, regVars,
                   lookupVars, whiteVars, bulkVars>>
    /\ now < MaxTime
    /\ now' = now + 1
    /\ UNCHANGED <<local_rate_limit, api_root, limits, admitted, lastSleep,
                   lastMethod, waitCalls, remote>>

LimitInit ==
    /\ local_rate_limit \in BOOLEAN
    /\ api_root \in ApiRoots
    /\ now = 0
    /\ limits = <<>>
    /\ admitted = [m \in Methods |-> <<>>]
    /\ lastSleep = 0
    /\ lastMethod = "get_followers"
    /\ waitCalls = 0
    /\ remote = <<>>

LimitNext ==
    \/ WaitLimit
    \/ LookupUsers
    \/ Tick

\* ------------------------------------------------------------------ stores

\* Two stores made by sqlite_dict() with the default dbpath: they share the
\* one Connection that CONNECTIONS holds for it.
Stores == {"A", "B"}
StoreKeys == {"k1", "k2"}
StoreVals == {1, 2}
MaxOps == 5

NoRows == [s \in Stores |-> [k \in StoreKeys |-> None]]
Op(o, s, k, st, v) == [op |-> o, store |-> s, key |-> k, status |-> st, val |-> v]

\* SqliteDict.is_open: bound to a Connection that is open, and the table
\* exists.
IsOpen(s) == storeConn[s] /\ connOpen /\ s \in tablesMem

\* What the database file holds after Connection.close's "self._conn.commit()".
CommitOnClose_Nothing(mem, disk) == disk
CommitOnClose(mem, disk) == mem

\* SqliteDict.open on a bound store: Connection.open (connect if there is no
\* handle, count one more) and CREATE TABLE IF NOT EXISTS, which sqlite3
\* commits at once unless a transaction is open.
DoOpen(s) ==
    /\ connOpen' = TRUE
    /\ openCount' = openCount + 1
    /\ tablesMem' = tablesMem \cup {s}
    /\ tablesDisk' = IF inTxn THEN tablesDisk ELSE tablesDisk \cup {s}
\* "if not self.is_open(): self.open()" at the head of every accessor.
EnsureOpen(s) ==
    IF IsOpen(s) THEN UNCHANGED <<connOpen, openCount, tablesMem, tablesDisk>>
    ELSE DoOpen(s)
\* SqliteDict.open raises ValueError on a store whose _conn is None.
OpenRaises(s) == ~IsOpen(s) /\ ~storeConn[s]

\* An accessor on a store that close() has unbound: ValueError, no effect.
Refused(o, s, k) ==
    /\ lastOp' = Op(o, s, k, "ValueError", 0)
    /\ UNCHANGED <<connOpen, openCount, inTxn, storeConn, tablesMem,
                   tablesDisk, rowsMem, rowsDisk, expected, durable, used>>

\* SqliteDict.__getitem__ / get
StoreGet ==
    /\ UNCHANGED <<walkVars, gateVars, limitVars, csvVars, regVars,
                   lookupVars, whiteVars, bulkVars>>
    /\ opCount < MaxOps
    /\ opCount' = opCount + 1
    /\ \E s \in Stores, k \in StoreKeys :
         IF OpenRaises(s) THEN Refused("get", s, k)
         ELSE /\ EnsureOpen(s)
              /\ lastOp' = IF rowsMem[s][k] = None
                           THEN Op("get", s, k, "KeyError", 0)
                           ELSE Op("get", s, k, "ok", rowsMem[s][k][1])
              /\ used' = used \cup {s}
              /\ UNCHANGED <<inTxn, storeConn, rowsMem, rowsDisk, expected,
                             durable>>

\* SqliteDict.__setitem__: INSERT OR REPLACE, which opens a transaction.
StoreSet ==
    /\ UNCHANGED <<walkVars, gateVars, limitVars, csvVars, regVars,
                   lookupVars, whiteVars, bulkVars>>
    /\ opCount < MaxOps
    /\ opCount' = opCount + 1
    /\ \E s \in Stores, k \in StoreKeys, v \in StoreVals :
         IF OpenRaises(s) THEN Refused("set", s, k)
         ELSE /\ EnsureOpen(s)
              /\ inTxn' = TRUE
              /\ rowsMem' = [rowsMem EXCEPT ![s][k] = Some(v)]
              /\ expected' = [expected EXCEPT ![s][k] = Some(v)]
              /\ lastOp' = Op("set", s, k, "ok", v)
              /\ used' = used \cup {s}
              /\ UNCHANGED <<storeConn, rowsDisk, durable>>

\* SqliteDict.__delitem__: DELETE ... WHERE key = ?, which opens a
\* transaction and raises nothing when no row matches.
StoreDelete ==
    /\ UNCHANGED <<walkVars, gateVars, limitVars, csvVars, regVars,
                   lookupVars, whiteVars, bulkVars>>
    /\ opCount < MaxOps
    /\ opCount' = opCount + 1
    /\ \E s \in Stores, k \in StoreKeys :
         IF OpenRaises(s) THEN Refused("delete", s, k)
         ELSE /\ EnsureOpen(s)
              /\ inTxn' = TRUE
              /\ rowsMem' = [rowsMem EXCEPT ![s][k] = None]
              /\ expected' = [expected EXCEPT ![s][k] = None]
              /\ lastOp' = Op("delete", s, k, "ok", 0)
              /\ used' = used \cup {s}
              /\ UNCHANGED <<storeConn, rowsDisk, durable>>

\* SqliteDict.open called by hand.
StoreOpen ==
    /\ UNCHANGED <<walkVars, gateVars, limitVars, csvVars, regVars,
                   lookupVars, whiteVars, bulkVars>>
    /\ opCount < MaxOps
    /\ opCount' = opCount + 1
    /\ \E s \in Stores :
         IF ~storeConn[s] THEN Refused("open", s, "k1")
         ELSE /\ DoOpen(s)
              /\ lastOp' = Op("open", s, "k1", "ok", 0)
              /\ used' = used \cup {s}
              /\ UNCHANGED <<inTxn, storeConn, rowsMem, rowsDisk, expected,
                             durable>>

\* "if self._conn is not None and self._open_connections == 0": the handle
\* is kept while the count is not 0.
StillOpen_Always(count) == TRUE
StillOpen(count) == count # 0

\* Connection.close: commit and count one less while there is a handle; the
\* handle is released when the count is then 0.
ConnClose ==
    IF connOpen
    THEN /\ rowsDisk' = CommitOnClose(rowsMem, rowsDisk)
         /\ tablesDisk' = CommitOnClose(tablesMem, tablesDisk)
         /\ durable' = rowsMem
         /\ inTxn' = FALSE
         /\ openCount' = openCount - 1
         /\ connOpen' = StillOpen(openCount - 1)
         /\ rowsMem' = IF StillOpen(openCount - 1) THEN rowsMem
                       ELSE CommitOnClose(rowsMem, rowsDisk)
         /\ tablesMem' = IF StillOpen(openCount - 1) THEN tablesMem
                         ELSE CommitOnClose(tablesMem, tablesDisk)
    ELSE UNCHANGED <<connOpen, openCount, inTxn, tablesMem, tablesDisk,
                     rowsMem, rowsDisk, durable>>

\* SqliteDict.close: close the connection once and unbind the store.
StoreClose ==
    /\ UNCHANGED <<walkVars, gateVars, limitVars, csvVars, regVars,
                   lookupVars, whiteVars, bulkVars>>
    /\ opCount < MaxOps
    /\ opCount' = opCount + 1
    /\ \E s \in Stores :
         /\ lastOp' = Op("close", s, "k1", "ok", 0)
         /\ storeConn' = [storeConn EXCEPT ![s] = FALSE]
         /\ used' = used \ {s}
         /\ UNCHANGED expected
         /\ IF storeConn[s] THEN ConnClose
            ELSE UNCHANGED <<connOpen, openCount, inTxn, tablesMem,
                             tablesDisk, rowsMem, rowsDisk, durable>>

\* daemon.close_database_connections: Connection.close on every Connection
\* of CONNECTIONS, the stores staying bound.
CloseDatabaseConnections ==
    /\ UNCHANGED <<walkVars, gateVars, limitVars, csvVars, regVars,
                   lookupVars, whiteVars, bulkVars>>
    /\ opCount < MaxOps
    /\ opCount' = opCount + 1
    /\ lastOp' = Op("close_all", "A", "k1", "ok", 0)
    /\ ConnClose
    /\ UNCHANGED <<storeConn, expected, used>>

\* A new process: CONNECTIONS holds a fresh Connection, every store is bound
\* to it, the database shows what the file holds.
NewProcess(o) ==
    /\ connOpen' = FALSE
    /\ openCount' = 0
    /\ inTxn' = FALSE
    /\ storeConn' = [s \in Stores |-> TRUE]
    /\ used' = {}
    /\ lastOp' = Op(o, "A", "k1", "ok", 0)
    /\ rowsMem' = rowsDisk'
    /\ tablesMem' = tablesDisk'
    /\ UNCHANGED <<expected, opCount>>

\* The process exits in an orderly way: the atexit hooks close every store,
\* the first of which commits; then a new process starts.
StoreExitRestart ==
    /\ UNCHANGED <<walkVars, gateVars, limitVars, csvVars, regVars,
                   lookupVars, whiteVars, bulkVars>>
    /\ lastOp.op # "restart"
    /\ rowsDisk' = IF connOpen THEN CommitOnClose(rowsMem, rowsDisk)
                   ELSE rowsDisk
    /\ tablesDisk' = IF connOpen THEN CommitOnClose(tablesMem, tablesDisk)
                     ELSE tablesDisk
    /\ durable' = IF connOpen THEN rowsMem ELSE durable
    /\ NewProcess("restart")

\* The process is killed: what was not committed is rolled back when the file
\* is next opened.
StoreKill ==
    /\ UNCHANGED <<walkVars, gateVars, limitVars, csvVars, regVars,
                   lookupVars, whiteVars, bulkVars>>
    /\ lastOp.op \notin {"restart", "killed"}
    /\ UNCHANGED <<rowsDisk, tablesDisk, durable>>
    /\ NewProcess("killed")

StoreInit ==
    /\ connOpen = FALSE
    /\ openCount = 0
    /\ inTxn = FALSE
    /\ storeConn = [s \in Stores |-> TRUE]
    /\ tablesMem = {}
    /\ tablesDisk = {}
    /\ rowsMem = NoRows
    /\ rowsDisk = NoRows
    /\ expected = NoRows
    /\ durable = NoRows
    /\ used = {}
    /\ lastOp = Op("restart", "A", "k1", "ok", 0)
    /\ opCount = 0

StoreNext ==
    \/ StoreGet
    \/ StoreSet
    \/ StoreDelete
    \/ StoreOpen
    \/ StoreClose
    \/ CloseDatabaseConnections
    \/ StoreExitRestart
    \/ StoreKill

\* --------------------------------------------------- CSV export and import

\* One store with the columns (key TEXT NOT NULL PRIMARY KEY, value TEXT):
\* a row is [key, val], a cell of the nullable column is NULL or a text.
CsvKeys == {"k1", "k2"}
CsvTexts == {"", "a"}
MaxCsvOps == 4
MaxCsvRows == 2

NULL == [t |-> "null", v |-> ""]
Text(x) == [t |-> "text", v |-> x]
Cells == {NULL} \cup {Text(x) : x \in CsvTexts}

\* SqliteDict.columns
CsvColumns == <<"key", "value">>

\* csv.writer.writerow on a row read from the table: None is written as the
\* empty field, a text as itself.
WriteField(cell) == IF cell.t = "null" THEN "" ELSE cell.v
\* csv.reader hands every field back as a str, which the TEXT column stores.
ReadField(field) == Text(field)

RECURSIVE RowsInOrder(_)
\* "for row in self._conn.execute('SELECT * FROM table')"
RowsInOrder(table) ==
    IF table = {} THEN <<>>
    ELSE LET r == CHOOSE x \in table : TRUE
         IN  <<r>> \o RowsInOrder(table \ {r})

\* SqliteDict.to_csv: the header, then one line per row.
ToCsv(table) ==
    [readable |-> TRUE,
     lines |-> <<CsvColumns>> \o
               [i \in 1..Cardinality(table) |->
                  <<RowsInOrder(table)[i].key,
                    WriteField(RowsInOrder(table)[i].val)>>]]

\* The files load_csv is given: unreadable, empty, or a header line (right or
\* wrong) followed by at most MaxCsvRows lines, each a full row or one that
\* lacks a field; after a header that is not the column list, which ends the
\* reading, at most one line, and after a line that lacks a field, which ends
\* the reading too, none.
CsvLine == {<<k, x>> : k \in CsvKeys, x \in CsvTexts} \cup {<<k>> : k \in CsvKeys}
CsvHeaders == {CsvColumns, <<"key", "other">>, <<"value", "key">>}
CsvBodies ==
    {b \in UNION {[1..n -> CsvLine] : n \in 0..MaxCsvRows} :
        \A i \in 1..(Len(b) - 1) : Len(b[i]) = Len(CsvColumns)}
CsvFiles ==
    {[readable |-> FALSE, lines |-> <<>>], [readable |-> TRUE, lines |-> <<>>]}
    \cup {[readable |-> TRUE, lines |-> <<CsvColumns>> \o b] : b \in CsvBodies}
    \cup {[readable |-> TRUE, lines |-> <<h>> \o b] :
            h \in CsvHeaders \ {CsvColumns},
            b \in {c \in CsvBodies : Len(c) <= 1}}

\* Connection.begin_transaction: "END TRANSACTION" commits what is pending,
\* then BEGIN.  The result is what a later ROLLBACK goes back to.
BeginTransaction_NoEnd(mem, disk, txn) == disk
BeginTransaction(mem, disk, txn) == IF txn THEN mem ELSE disk
\* Connection.rollback_transaction
RollbackTransaction(begun, cur) == begun

RECURSIVE InsertLines(_, _, _)
\* The loop of load_csv over the lines after the header: [ok, rows, applied].
InsertLines(table, lines, applied) ==
    IF lines = <<>> THEN [ok |-> TRUE, rows |-> table, applied |-> applied]
    ELSE IF Len(Head(lines)) # Len(CsvColumns)
         THEN [ok |-> FALSE, rows |-> table, applied |-> applied]
         ELSE InsertLines(Upsert(table, [key |-> Head(lines)[1],
                                         val |-> ReadField(Head(lines)[2])]),
                          Tail(lines), applied + 1)

\* "if columns != self.columns: raise ValueError": two lists are compared.
HeaderMatches_BySet(columns, expect) ==
    {columns[i] : i \in 1..Len(columns)} = {expect[i] : i \in 1..Len(expect)}
HeaderMatches(columns, expect) == columns = expect

\* load_csv inserts into the table as it is; nothing is deleted first.
LoadBase_Empty(table) == {}
LoadBase(table) == table

\* The try block of load_csv: open(path), next(iterable), the header check
\* and the loop.
ReadCsv(table, file) ==
    IF ~file.readable \/ file.lines = <<>>
       \/ ~HeaderMatches(Head(file.lines), CsvColumns)
    THEN [ok |-> FALSE, rows |-> table, applied |-> 0]
    ELSE InsertLines(LoadBase(table), Tail(file.lines), 0)

CsvOp(o, st, before, dirty, applied, own, written) ==
    [op |-> o, status |-> st, before |-> before, dirty |-> dirty,
     applied |-> applied, own |-> own, written |-> written]

\* what the calls leave in csvArg: the key and what was found under it, or
\* the header line of the file and whether load_csv took it, with the lines
\* it inserted when it succeeded
NoArg == [key |-> "", found |-> FALSE, val |-> NULL, header |-> <<>>,
          body |-> <<>>]
Answer(k, found, val) ==
    [key |-> k, found |-> found, val |-> val, header |-> <<>>, body |-> <<>>]

\* Connection.execute: "return self._cursor.execute(...)" puts the rows of
\* the statement into the one cursor of the connection, in place of what it
\* still held.
Execute(cursor, rows) == rows
\* cursor.fetchone() / next(cursor)
FetchRest(cursor) == IF cursor = <<>> THEN <<>> ELSE Tail(cursor)

\* "SELECT * FROM table WHERE key = ?"
SelectKey(table, k) == RowsInOrder({r \in table : r.key = k})
\* "DELETE FROM table WHERE key = ?"
DeleteRows_All(table, k) == {}
DeleteRows(table, k) == {r \in table : r.key # k}

NoIteration == [state |-> "none", out |-> <<>>, snap |-> {}]

\* SqliteDict.__setitem__
CsvSet ==
    /\ UNCHANGED <<walkVars, gateVars, limitVars, storeVars, regVars,
                   lookupVars, whiteVars, bulkVars>>
    /\ csvOps < MaxCsvOps
    /\ csvOps' = csvOps + 1
    /\ \E k \in CsvKeys, c \in Cells :
         /\ csvMem' = Upsert(csvMem, [key |-> k, val |-> c])
         /\ csvLast' = CsvOp("set", "ok", csvMem, csvTxn, 1, FALSE,
                              {[key |-> k, val |-> c]})
         /\ csvMap' = [csvMap EXCEPT ![k] = Some(c)]
         /\ csvArg' = Answer(k, FALSE, c)
    /\ csvTxn' = TRUE
    /\ csvCursor' = Execute(csvCursor, <<>>)
    /\ UNCHANGED <<csvDisk, csvFile, csvExported, csvIt>>

\* SqliteDict.__delitem__
CsvDelete ==
    /\ UNCHANGED <<walkVars, gateVars, limitVars, storeVars, regVars,
                   lookupVars, whiteVars, bulkVars>>
    /\ csvOps < MaxCsvOps
    /\ csvOps' = csvOps + 1
    /\ \E k \in CsvKeys :
         /\ csvMem' = DeleteRows(csvMem, k)
         /\ csvLast' = CsvOp("delete", "ok", csvMem, csvTxn, 0, FALSE, {})
         /\ csvMap' = [csvMap EXCEPT ![k] = None]
         /\ csvArg' = Answer(k, FALSE, NULL)
    /\ csvTxn' = TRUE
    /\ csvCursor' = Execute(csvCursor, <<>>)
    /\ UNCHANGED <<csvDisk, csvFile, csvExported, csvIt>>

\* SqliteDict.to_csv
CsvExport ==
    /\ UNCHANGED <<walkVars, gateVars, limitVars, storeVars, regVars,
                   lookupVars, whiteVars, bulkVars>>
    /\ csvOps < MaxCsvOps
    /\ csvOps' = csvOps + 1
    /\ csvFile' = Some(ToCsv(csvMem))
    /\ csvExported' = csvMem
    /\ csvLast' = CsvOp("export", "ok", csvMem, csvTxn, 0, FALSE, {})
    /\ csvArg' = NoArg
    /\ csvCursor' = Execute(csvCursor, <<>>)
    /\ UNCHANGED <<csvMem, csvDisk, csvTxn, csvMap, csvIt>>

RECURSIVE MapAfterLines(_, _)
\* the lines of a file taken as one set per line
MapAfterLines(map, lines) ==
    IF lines = <<>> THEN map
    ELSE MapAfterLines([map EXCEPT ![Head(lines)[1]] =
                                      Some(ReadField(Head(lines)[2]))],
                       Tail(lines))

\* SqliteDict.load_csv
CsvLoad ==
    /\ UNCHANGED <<walkVars, gateVars, limitVars, storeVars, regVars,
                   lookupVars, whiteVars, bulkVars>>
    /\ csvOps < MaxCsvOps
    /\ csvOps' = csvOps + 1
    /\ \E file \in CsvFiles :
         LET begun == BeginTransaction(csvMem, csvDisk, csvTxn)
             read == ReadCsv(csvMem, file)
             after == IF read.ok THEN read.rows
                      ELSE RollbackTransaction(begun, read.rows)
         IN  /\ csvMem' = after
             /\ csvDisk' = after
             /\ csvLast' = CsvOp("load", IF read.ok THEN "ok" ELSE "failed",
                                 csvMem, csvTxn, read.applied,
                                 csvFile = Some(file), {})
             /\ csvMap' = IF read.ok
                           THEN MapAfterLines(csvMap, Tail(file.lines))
                           ELSE csvMap
             /\ csvArg' = [NoArg EXCEPT
                             !.header = IF file.lines = <<>> THEN <<>>
                                        ELSE Head(file.lines),
                             !.found = /\ file.readable
                                       /\ file.lines # <<>>
                                       /\ HeaderMatches(Head(file.lines),
                                                        CsvColumns),
                             !.body = IF read.ok THEN Tail(file.lines)
                                      ELSE <<>>]
    /\ csvTxn' = FALSE
    /\ csvCursor' = Execute(csvCursor, <<>>)
    /\ UNCHANGED <<csvFile, csvExported, csvIt>>

\* SqliteDict.__getitem__: fetchone() of the SELECT, KeyError without a row.
CsvGet ==
    /\ UNCHANGED <<walkVars, gateVars, limitVars, storeVars, regVars,
                   lookupVars, whiteVars, bulkVars>>
    /\ csvOps < MaxCsvOps
    /\ csvOps' = csvOps + 1
    /\ \E k \in CsvKeys :
         LET rows == Execute(csvCursor, SelectKey(csvMem, k)) IN
         /\ csvLast' = CsvOp("get", IF rows = <<>> THEN "KeyError" ELSE "ok",
                              csvMem, csvTxn, 0, FALSE, {})
         /\ csvArg' = IF rows = <<>> THEN Answer(k, FALSE, NULL)
                       ELSE Answer(k, TRUE, Head(rows).val)
         /\ csvCursor' = FetchRest(rows)
    /\ UNCHANGED <<csvMem, csvDisk, csvTxn, csvFile, csvExported, csvMap,
                   csvIt>>

\* SqliteDict.__contains__: fetchone() of the SELECT is not None.
CsvContains ==
    /\ UNCHANGED <<walkVars, gateVars, limitVars, storeVars, regVars,
                   lookupVars, whiteVars, bulkVars>>
    /\ csvOps < MaxCsvOps
    /\ csvOps' = csvOps + 1
    /\ \E k \in CsvKeys :
         LET rows == Execute(csvCursor, SelectKey(csvMem, k)) IN
         /\ csvLast' = CsvOp("contains", "ok", csvMem, csvTxn, 0, FALSE, {})
         /\ csvArg' = Answer(k, rows # <<>>, NULL)
         /\ csvCursor' = FetchRest(rows)
    /\ UNCHANGED <<csvMem, csvDisk, csvTxn, csvFile, csvExported, csvMap,
                   csvIt>>

\* SqliteDict.items(): a generator is made; none of its lines has run.
CsvItems ==
    /\ UNCHANGED <<walkVars, gateVars, limitVars, storeVars, regVars,
                   lookupVars, whiteVars, bulkVars>>
    /\ csvOps < MaxCsvOps
    /\ csvOps' = csvOps + 1
    /\ csvIt' = [state |-> "new", out |-> <<>>, snap |-> {}]
    /\ csvLast' = CsvOp("items", "ok", csvMem, csvTxn, 0, FALSE, {})
    /\ csvArg' = NoArg
    /\ UNCHANGED <<csvMem, csvDisk, csvTxn, csvFile, csvExported, csvMap,
                   csvCursor>>

\* next() on the generator of items(): the first one executes the SELECT,
\* every one takes the next row from the cursor of the connection.
CsvItemsNext ==
    /\ UNCHANGED <<walkVars, gateVars, limitVars, storeVars, regVars,
                   lookupVars, whiteVars, bulkVars>>
    /\ csvOps < MaxCsvOps
    /\ csvOps' = csvOps + 1
    /\ csvIt.state \in {"new", "scan"}
    /\ LET rows == IF csvIt.state = "new"
                   THEN Execute(csvCursor, RowsInOrder(csvMem))
                   ELSE csvCursor
           snap == IF csvIt.state = "new" THEN csvMem ELSE csvIt.snap
       IN  /\ csvCursor' = FetchRest(rows)
           /\ csvIt' = IF rows = <<>>
                        THEN [state |-> "ended", out |-> csvIt.out,
                              snap |-> snap]
                        ELSE [state |-> "scan",
                              out |-> Append(csvIt.out, Head(rows)),
                              snap |-> snap]
           /\ csvLast' = CsvOp("next", IF rows = <<>> THEN "StopIteration"
                                       ELSE "ok",
                                csvMem, csvTxn, 0, FALSE, {})
    /\ csvArg' = NoArg
    /\ UNCHANGED <<csvMem, csvDisk, csvTxn, csvFile, csvExported, csvMap>>

CsvInit ==
    /\ csvMem = {}
    /\ csvDisk = {}
    /\ csvTxn = FALSE
    /\ csvFile = None
    /\ csvExported = {}
    /\ csvLast = CsvOp("start", "ok", {}, FALSE, 0, FALSE, {})
    /\ csvOps = 0
    /\ csvMap = [k \in CsvKeys |-> None]
    /\ csvArg = NoArg
    /\ csvCursor = <<>>
    /\ csvIt = NoIteration

CsvNext ==
    \/ CsvSet
    \/ CsvDelete
    \/ CsvExport
    \/ CsvLoad

\* A store whose table holds the rows that earlier sets left in the file.
MapInit ==
    /\ csvMem \in {t \in SUBSET [key : CsvKeys, val : Cells] :
                     \A r1, r2 \in t : r1.key = r2.key => r1 = r2}
    /\ csvDisk = csvMem
    /\ csvTxn = FALSE
    /\ csvFile = None
    /\ csvExported = {}
    /\ csvLast = CsvOp("start", "ok", {}, FALSE, 0, FALSE, {})
    /\ csvOps = 0
    /\ csvMap = [k \in CsvKeys |->
                   IF \E r \in csvMem : r.key = k
                   THEN Some((CHOOSE r \in csvMem : r.key = k).val)
                   ELSE None]
    /\ csvArg = NoArg
    /\ csvCursor = <<>>
    /\ csvIt = NoIteration

MapNext ==
    \/ CsvSet
    \/ CsvDelete
    \/ CsvGet
    \/ CsvContains
    \/ CsvItems
    \/ CsvItemsNext

\* ------------------------------------------------ registry of connections

Paths == {"p1", "p2"}
RegStores == {"A", "B", "C"}
Schemas == {"s1", "s2"}
MaxRegOps == 6

NoDict == [made |-> FALSE, obj |-> 0, bound |-> FALSE, schema |-> "", path |-> ""]
RegOp(o, s, st) == [op |-> o, store |-> s, status |-> st]

\* Connection.new: "CONNECTIONS.setdefault(path, Connection(path))" returns
\* the object the registry already holds for the path, else the fresh one.
ConnectionNew_Fresh(conns, path, fresh) == fresh
ConnectionNew(conns, path, fresh) ==
    IF path \in DOMAIN conns THEN conns[path] ELSE fresh

\* SqliteDict.__init__: binds the store to Connection.new(dbpath); nothing is
\* connected.
RegConstruct ==
    /\ UNCHANGED <<walkVars, gateVars, limitVars, storeVars, csvVars,
                   lookupVars, whiteVars, bulkVars>>
    /\ regOps < MaxRegOps
    /\ regOps' = regOps + 1
    /\ \E s \in RegStores, p \in Paths, sch \in Schemas :
         LET fresh == Len(connObjs) + 1
             obj == ConnectionNew(CONNECTIONS, p, fresh)
         IN  /\ ~sdicts[s].made
             /\ CONNECTIONS' = IF p \in DOMAIN CONNECTIONS THEN CONNECTIONS
                               ELSE [q \in DOMAIN CONNECTIONS \cup {p} |->
                                       IF q = p THEN fresh ELSE CONNECTIONS[q]]
             /\ connObjs' = IF obj = fresh \/ p \notin DOMAIN CONNECTIONS
                            THEN Append(connObjs, [path |-> p, handle |-> 0,
                                                   count |-> 0])
                            ELSE connObjs
             /\ sdicts' = [sdicts EXCEPT ![s] =
                             [made |-> TRUE, obj |-> obj, bound |-> TRUE,
                              schema |-> sch, path |-> p]]
             /\ regLast' = RegOp("construct", s, "ok")
    /\ UNCHANGED <<handles, handleSeq, diskSchema>>

\* SqliteDict.is_open
RegIsOpen(s) ==
    /\ sdicts[s].bound
    /\ connObjs[sdicts[s].obj].handle # 0
    /\ diskSchema[sdicts[s].path] # None

\* SqliteDict.open on a bound store: Connection.open connects when the object
\* holds no handle and counts one more; CREATE TABLE IF NOT EXISTS leaves a
\* table that exists as it is.
RegDoOpen(s) ==
    LET o == sdicts[s].obj
        p == sdicts[s].path
        connect == connObjs[o].handle = 0
    IN  /\ handleSeq' = IF connect THEN handleSeq + 1 ELSE handleSeq
        /\ handles' = IF connect
                      THEN handles \cup {[id |-> handleSeq + 1, path |-> p]}
                      ELSE handles
        /\ connObjs' = [connObjs EXCEPT
                          ![o].handle = IF connect THEN handleSeq + 1 ELSE @,
                          ![o].count = @ + 1]
        /\ diskSchema' = IF diskSchema[p] = None
                         THEN [diskSchema EXCEPT ![p] = Some(sdicts[s].schema)]
                         ELSE diskSchema

\* SqliteDict.open called by hand.
RegOpen ==
    /\ UNCHANGED <<walkVars, gateVars, limitVars, storeVars, csvVars,
                   lookupVars, whiteVars, bulkVars>>
    /\ regOps < MaxRegOps
    /\ regOps' = regOps + 1
    /\ \E s \in RegStores :
         /\ sdicts[s].made
         /\ IF sdicts[s].bound
            THEN RegDoOpen(s) /\ regLast' = RegOp("open", s, "ok")
            ELSE /\ regLast' = RegOp("open", s, "ValueError")
                 /\ UNCHANGED <<connObjs, handles, handleSeq, diskSchema>>
    /\ UNCHANGED <<CONNECTIONS, sdicts>>

\* An accessor (here __len__): "if not self.is_open(): self.open()", then
\* the statement.
RegAccess ==
    /\ UNCHANGED <<walkVars, gateVars, limitVars, storeVars, csvVars,
                   lookupVars, whiteVars, bulkVars>>
    /\ regOps < MaxRegOps
    /\ regOps' = regOps + 1
    /\ \E s \in RegStores :
         /\ sdicts[s].made
         /\ IF RegIsOpen(s)
            THEN /\ regLast' = RegOp("len", s, "ok")
                 /\ UNCHANGED <<connObjs, handles, handleSeq, diskSchema>>
            ELSE IF sdicts[s].bound
                 THEN RegDoOpen(s) /\ regLast' = RegOp("len", s, "ok")
                 ELSE /\ regLast' = RegOp("len", s, "ValueError")
                      /\ UNCHANGED <<connObjs, handles, handleSeq,
                                     diskSchema>>
    /\ UNCHANGED <<CONNECTIONS, sdicts>>

\* SqliteDict.close with Connection.close.
RegClose ==
    /\ UNCHANGED <<walkVars, gateVars, limitVars, storeVars, csvVars,
                   lookupVars, whiteVars, bulkVars>>
    /\ regOps < MaxRegOps
    /\ regOps' = regOps + 1
    /\ \E s \in RegStores :
         LET o == sdicts[s].obj IN
         /\ sdicts[s].made
         /\ regLast' = RegOp("close", s, "ok")
         /\ sdicts' = [sdicts EXCEPT ![s].bound = FALSE]
         /\ IF sdicts[s].bound /\ connObjs[o].handle # 0
            THEN /\ connObjs' = [connObjs EXCEPT
                                   ![o].count = @ - 1,
                                   ![o].handle = IF connObjs[o].count = 1
                                                 THEN 0 ELSE @]
                 /\ handles' = IF connObjs[o].count = 1
                               THEN {h \in handles :
                                       h.id # connObjs[o].handle}
                               ELSE handles
            ELSE UNCHANGED <<connObjs, handles>>
    /\ UNCHANGED <<CONNECTIONS, handleSeq, diskSchema>>

RegInit ==
    /\ CONNECTIONS = <<>>
    /\ connObjs = <<>>
    /\ sdicts = [s \in RegStores |-> NoDict]
    /\ handles = {}
    /\ handleSeq = 0
    /\ diskSchema = [p \in Paths |-> None]
    /\ regLast = RegOp("start", "A", "ok")
    /\ regOps = 0

RegNext ==
    \/ RegConstruct
    \/ RegOpen
    \/ RegAccess
    \/ RegClose

\* ------------------------------------------------------- user-lookup walk

page_size == 2
MaxUsers == 5
MaxWalks == 3

Others == <<walkVars, gateVars, limitVars, storeVars, csvVars, regVars,
            whiteVars, bulkVars>>

\* bind_api: start_index = current_page * page_size
StartIndex_Zero(p) == 0
StartIndex(p) == p * page_size

\* util.chunks: sequence[start_index:end_index], offsets from 0
Slice(sequence, start_index, end_index) ==
    SubSeq(sequence, start_index + 1,
           IF end_index < Len(sequence) THEN end_index ELSE Len(sequence))

\* the users of a chunk the remote side returns
Returned(chunk) == SelectSeq(chunk, LAMBDA u : u \notin missing)

\* lookup_users(...): reads page_state.current_page and returns the
\* generator bind_api(...); no line of the generator has run.
LookupCreate ==
    /\ UNCHANGED Others
    /\ lkpc \in {"none", "done", "raised"}
    /\ lkWalks < MaxWalks
    /\ lkWalks' = lkWalks + 1
    /\ lkpc' = "idle"
    /\ lkStart' = page_state
    /\ lkNext' = StartIndex(page_state)
    /\ lkChunk' = -1
    /\ lkResp' = <<>>
    /\ lkFetched' = <<>>
    /\ lkOut' = <<>>
    /\ UNCHANGED <<users, missing, page_state>>

\* next() on the generator.
LookupPull ==
    /\ UNCHANGED Others
    /\ lkpc \in {"idle", "yield"}
    /\ lkpc' = "running"
    /\ UNCHANGED <<users, missing, page_state, lkNext, lkChunk, lkResp,
                   lkStart, lkFetched, lkOut, lkWalks>>

\* The generator runs to its next yield, one turn of a loop at a time:
\* the inner loop hands out the next user of the response; when the response
\* is used up the page index is incremented; the outer loop takes the next
\* chunk from util.chunks and requests it.
LookupRun ==
    /\ UNCHANGED Others
    /\ lkpc = "running"
    /\ UNCHANGED <<users, missing, lkStart, lkWalks>>
    /\ IF lkResp # <<>>
       THEN /\ lkpc' = "yield"
            /\ lkOut' = Append(lkOut, Head(lkResp))
            /\ lkResp' = Tail(lkResp)
            /\ UNCHANGED <<page_state, lkNext, lkChunk, lkFetched>>
       ELSE IF lkChunk # -1
       THEN /\ page_state' = page_state + 1
            /\ lkChunk' = -1
            /\ UNCHANGED <<lkpc, lkNext, lkResp, lkFetched, lkOut>>
       ELSE IF lkNext < Len(users)
       THEN /\ lkFetched' = Append(lkFetched, lkNext)
            /\ lkNext' = lkNext + page_size
            /\ \/ /\ lkChunk' = lkNext
                  /\ lkResp' = Returned(Slice(users, lkNext,
                                              lkNext + page_size))
                  /\ UNCHANGED lkpc
               \/ /\ lkpc' = "raised"
                  /\ UNCHANGED <<lkChunk, lkResp>>
            /\ UNCHANGED <<page_state, lkOut>>
       ELSE /\ lkpc' = "done"
            /\ UNCHANGED <<page_state, lkNext, lkChunk, lkResp, lkFetched,
                           lkOut>>

\* The consumer raises while it holds a user: the generator is dropped.
LookupAbandon ==
    /\ UNCHANGED Others
    /\ lkpc = "yield"
    /\ lkpc' = "raised"
    /\ UNCHANGED <<users, missing, page_state, lkNext, lkChunk, lkResp,
                   lkStart, lkFetched, lkOut, lkWalks>>

LookupInit ==
    /\ \E n \in 0..MaxUsers : users = [i \in 1..n |-> i]
    /\ missing \in SUBSET (1..MaxUsers)
    /\ Cardinality(missing) <= 2
    /\ page_state = START_PAGE
    /\ lkpc = "none"
    /\ lkNext = 0
    /\ lkChunk = -1
    /\ lkResp = <<>>
    /\ lkStart = 0
    /\ lkFetched = <<>>
    /\ lkOut = <<>>
    /\ lkWalks = 0

LookupNext ==
    \/ LookupCreate
    \/ LookupPull
    \/ LookupRun
    \/ LookupAbandon

\* ---------------------------------------------------------- whitelist test

MaxWhitelist == 2

Keywords == {"whitelist_verified", "whitelist_following",
             "whitelist_follow_request_sent", "whitelist_friendship"}
Relations == [following : BOOLEAN, followed_by : BOOLEAN]

\* kwds.get(name, True)
KwGet_Ignore(name) == TRUE
KwGet(name) == IF kwds[name] = None THEN TRUE ELSE kwds[name][1]

\* has_friendship: source.following or source.followed_by
HasFriendship(rel) == rel.following \/ rel.followed_by

\* "any(has_friendship(tweepy_api, user, i) for i in whitelist)": the
\* lookups it issues, up to the first friendship found.
RECURSIVE AnyLookups(_)
AnyLookups(i) ==
    IF i > Len(whitelist) THEN <<>>
    ELSE IF HasFriendship(whitelist[i]) THEN <<i>>
    ELSE <<i>> \o AnyLookups(i + 1)

\* should_block_user
ShouldBlockUser ==
    /\ UNCHANGED <<walkVars, gateVars, limitVars, storeVars, csvVars, regVars,
                   lookupVars, bulkVars>>
    /\ shpc = "call"
    /\ shpc' = "returned"
    /\ UNCHANGED <<user, relMe, whitelist, kwds>>
    /\ IF KwGet("whitelist_verified") /\ user.verified
       THEN result' = FALSE /\ lookups' = <<>>
       ELSE IF KwGet("whitelist_following") /\ user.following
       THEN result' = FALSE /\ lookups' = <<>>
       ELSE IF KwGet("whitelist_follow_request_sent")
               /\ user.follow_request_sent
       THEN result' = FALSE /\ lookups' = <<>>
       ELSE IF KwGet("whitelist_friendship")
       THEN IF HasFriendship(relMe)
            THEN result' = FALSE /\ lookups' = <<0>>
            ELSE /\ lookups' = <<0>> \o AnyLookups(1)
                 /\ result' = ~(\E i \in 1..Len(whitelist) :
                                  HasFriendship(whitelist[i]))
       ELSE /\ lookups' = AnyLookups(1)
            /\ result' = ~(\E i \in 1..Len(whitelist) :
                             HasFriendship(whitelist[i]))

\* the next account is tested
ShouldBlockNext ==
    /\ UNCHANGED <<walkVars, gateVars, limitVars, storeVars, csvVars, regVars,
                   lookupVars, bulkVars>>
    /\ shpc = "returned"
    /\ shpc' = "call"
    /\ user' \in [verified : BOOLEAN, following : BOOLEAN,
                  follow_request_sent : BOOLEAN]
    /\ relMe' \in Relations
    /\ UNCHANGED <<whitelist, kwds, result, lookups>>

WhiteInit ==
    /\ user \in [verified : BOOLEAN, following : BOOLEAN,
                 follow_request_sent : BOOLEAN]
    /\ relMe \in Relations
    /\ \E n \in 0..MaxWhitelist : whitelist \in [1..n -> Relations]
    /\ kwds \in [Keywords -> {None, Some(TRUE), Some(FALSE)}]
    /\ shpc = "call"
    /\ result = FALSE
    /\ lookups = <<>>

WhiteNext ==
    \/ ShouldBlockUser
    \/ ShouldBlockNext

\* ------------------------------------------------- the parts held constant

WalkQuiet ==
    /\ kind = "followers" /\ npages = 0 /\ wpc = "idle"
    /\ cursor_state = None /\ it_tok = None /\ cur_page = 0 /\ idx = 0
    /\ tokMem = None /\ tokDisk = None /\ delivered = <<>>
    /\ fetchCalls = 0 /\ invocations = 0 /\ interruptions = {}
    /\ errAfter = {}
GateQuiet ==
    /\ gkind = "follower" /\ gpc = "idle" /\ gkey = "" /\ gattr = 0
    /\ gdecision = FALSE /\ gblocking = FALSE
    /\ seenMem = {} /\ seenDisk = {} /\ blockedMem = {} /\ blockedDisk = {}
    /\ gtrace = <<>> /\ evalCount = 0 /\ decideCount = <<>>
    /\ blockCount = <<>> /\ completed = {} /\ disturbed = {}
    /\ interrupted = {} /\ gaction = "none"
LimitQuiet ==
    /\ local_rate_limit = FALSE /\ api_root = "/1.1" /\ now = 0
    /\ limits = <<>> /\ admitted = <<>> /\ lastSleep = 0
    /\ lastMethod = "" /\ waitCalls = 0 /\ remote = <<>>
StoreQuiet ==
    /\ connOpen = FALSE /\ openCount = 0 /\ inTxn = FALSE
    /\ storeConn = <<>> /\ tablesMem = {} /\ tablesDisk = {}
    /\ rowsMem = <<>> /\ rowsDisk = <<>> /\ expected = <<>>
    /\ durable = <<>> /\ used = {} /\ lastOp = <<>> /\ opCount = 0
CsvQuiet ==
    /\ csvMem = {} /\ csvDisk = {} /\ csvTxn = FALSE /\ csvFile = None
    /\ csvExported = {} /\ csvLast = <<>> /\ csvOps = 0
    /\ csvMap = <<>> /\ csvArg = <<>> /\ csvCursor = <<>> /\ csvIt = <<>>
RegQuiet ==
    /\ CONNECTIONS = <<>> /\ connObjs = <<>> /\ sdicts = <<>>
    /\ handles = {} /\ handleSeq = 0 /\ diskSchema = <<>>
    /\ regLast = <<>> /\ regOps = 0

LookupQuiet ==
    /\ users = <<>> /\ missing = {} /\ page_state = 0 /\ lkpc = "none"
    /\ lkNext = 0 /\ lkChunk = -1 /\ lkResp = <<>> /\ lkStart = 0
    /\ lkFetched = <<>> /\ lkOut = <<>> /\ lkWalks = 0

WhiteQuiet ==
    /\ user = <<>> /\ relMe = <<>> /\ whitelist = <<>> /\ kwds = <<>>
    /\ shpc = "call" /\ result = FALSE /\ lookups = <<>>

\* ------------------------------------------------------ bulk operations

\* block_followers walks the followers of each account; block_media_replies
\* walks the timeline of one account and, for each tweet, its replies.
BulkModes == {"followers", "media"}
MaxBulkPages == 2
Timeline == "acct"
InnerSubjects(mode) ==
    IF mode = "followers" THEN <<"a1", "a2">> ELSE <<"t1", "t2">>
NumInner == Len(InnerSubjects("media"))
BulkSubjects == {"a1", "a2", "acct", "t1", "t2"}
BulkKind(s) ==
    IF s \in {"a1", "a2"} THEN "followers"
    ELSE IF s = Timeline THEN "tweets" ELSE "replies"

\* A walk is in progress once it has issued a request and until it is
\* terminal or errored.
InProgress ==
    {s \in BulkSubjects :
        bfetched[s] > 0 /\ wstat[s] \notin {"terminal", "errored"}}

\* A for statement asks its iterable for the next item only when the body,
\* with the inner for statement, has run to its end: the inner generator is
\* exhausted.
InnerOver_Always(st) == TRUE
InnerOver(st) == st = "terminal"

\* The tweets of the timeline a page holds: NumInner tweets on bpages pages.
TweetsPerPage == NumInner \div bpages[Timeline]

\* A watermark walk learns of its end by an empty page; a cursor walk by the
\* cursor 0 of its last page, or by an empty first page.
ClosingRequest(s) == ~IsCursorKind(BulkKind(s)) \/ bfetched[s] = 0

\* The generators that are suspended when an error leaves the loops: none of
\* their except clauses runs.
Abandon(st, keep) ==
    [s \in BulkSubjects |->
        IF s \notin keep /\ st[s] = "progress" THEN "abandoned" ELSE st[s]]

\* A request of the walk of s: it is answered, or fails with a TweepError,
\* which the walk's wrapper stores and re-raises through the loops.
BulkRequest(s, then_pc, then_stat, cur) ==
    /\ bfetched' = [bfetched EXCEPT ![s] = @ + 1]
    /\ \/ /\ wstat' = [wstat EXCEPT ![s] = then_stat]
          /\ bpc' = then_pc
          /\ bcur' = cur
       \/ /\ wstat' = Abandon([wstat EXCEPT ![s] = "errored"], {s})
          /\ bpc' = "raised"
          /\ bcur' = bcur

\* "for account in accounts" / "for tweet in tweets(tweepy_api, account)":
\* the outer loop takes its next subject.
BulkOuter ==
    /\ UNCHANGED <<walkVars, gateVars, limitVars, storeVars, csvVars, regVars,
                   lookupVars, whiteVars>>
    /\ bpc = "loop"
    /\ IF bcur = 0 THEN TRUE
       ELSE InnerOver(wstat[InnerSubjects(bmode)[bcur]])
    /\ UNCHANGED <<bmode, bpages>>
    /\ IF bmode = "followers"
       THEN /\ IF bcur < NumInner
               THEN bcur' = bcur + 1 /\ bpc' = "loop"
               ELSE bcur' = bcur /\ bpc' = "done"
            /\ UNCHANGED <<wstat, bfetched>>
       ELSE IF bcur < NumInner
            THEN IF bcur + 1 > bfetched[Timeline] * TweetsPerPage
                 THEN BulkRequest(Timeline, "loop", "progress", bcur + 1)
                 ELSE /\ bcur' = bcur + 1
                      /\ UNCHANGED <<wstat, bfetched, bpc>>
            ELSE BulkRequest(Timeline, "done", "terminal", bcur)

\* "for follower in followers(tweepy_api, account)" / "for reply in
\* replies(tweepy_api, tweet, previous_tweet_id)": the inner loop takes its
\* next item.
BulkInner ==
    /\ UNCHANGED <<walkVars, gateVars, limitVars, storeVars, csvVars, regVars,
                   lookupVars, whiteVars>>
    /\ bpc = "loop"
    /\ bcur > 0
    /\ wstat[InnerSubjects(bmode)[bcur]] \in {"new", "progress"}
    /\ UNCHANGED <<bmode, bpages>>
    /\ LET s == InnerSubjects(bmode)[bcur] IN
       IF bfetched[s] < bpages[s]
       THEN BulkRequest(s, "eval", "progress", bcur)
       ELSE IF ClosingRequest(s)
            THEN BulkRequest(s, "loop", "terminal", bcur)
            ELSE /\ wstat' = [wstat EXCEPT ![s] = "terminal"]
                 /\ UNCHANGED <<bfetched, bcur, bpc>>

\* block_follower / block_account on the item: it returns, or it raises and
\* the error leaves both loops.
BulkEval ==
    /\ UNCHANGED <<walkVars, gateVars, limitVars, storeVars, csvVars, regVars,
                   lookupVars, whiteVars>>
    /\ bpc = "eval"
    /\ UNCHANGED <<bmode, bpages, bfetched, bcur>>
    /\ \/ bpc' = "loop" /\ UNCHANGED wstat
       \/ bpc' = "raised" /\ wstat' = Abandon(wstat, {})

BulkInit ==
    /\ bmode \in BulkModes
    /\ bpages \in [BulkSubjects -> 0..MaxBulkPages]
    /\ \A s \in BulkSubjects :
          IF s \in {InnerSubjects(bmode)[i] : i \in 1..NumInner} THEN TRUE
          ELSE IF s = Timeline /\ bmode = "media"
               THEN bpages[s] \in 1..NumInner
          ELSE bpages[s] = 0
    /\ wstat = [s \in BulkSubjects |-> "new"]
    /\ bfetched = [s \in BulkSubjects |-> 0]
    /\ bcur = 0
    /\ bpc = "loop"

BulkNext ==
    \/ BulkOuter
    \/ BulkInner
    \/ BulkEval

BulkQuiet ==
    /\ bmode = "followers"
    /\ bpages = [s \in BulkSubjects |-> 0]
    /\ wstat = [s \in BulkSubjects |-> "new"]
    /\ bfetched = [s \in BulkSubjects |-> 0]
    /\ bcur = 0
    /\ bpc = "done"

\* --------------------------------------------------------- specifications

InitWalk == WalkInit /\ GateQuiet /\ LimitQuiet /\ StoreQuiet /\ CsvQuiet
    /\ RegQuiet /\ LookupQuiet /\ WhiteQuiet /\ BulkQuiet
SpecWalk == InitWalk /\ [][WalkNext]_vars

\* as_daemon's loop keeps running: a step that can be taken is taken.
SpecRetry == InitWalk /\ [][RetryNext]_vars /\ WF_vars(RetryNext)

InitLimit == LimitInit /\ WalkQuiet /\ GateQuiet /\ StoreQuiet /\ CsvQuiet
    /\ RegQuiet /\ LookupQuiet /\ WhiteQuiet /\ BulkQuiet
SpecLimit == InitLimit /\ [][LimitNext]_vars

InitStore == StoreInit /\ WalkQuiet /\ GateQuiet /\ LimitQuiet /\ CsvQuiet
    /\ RegQuiet /\ LookupQuiet /\ WhiteQuiet /\ BulkQuiet
SpecStore == InitStore /\ [][StoreNext]_vars

InitCsv == CsvInit /\ WalkQuiet /\ GateQuiet /\ LimitQuiet /\ StoreQuiet
    /\ RegQuiet /\ LookupQuiet /\ WhiteQuiet /\ BulkQuiet
SpecCsv == InitCsv /\ [][CsvNext]_vars

InitReg == RegInit /\ WalkQuiet /\ GateQuiet /\ LimitQuiet /\ StoreQuiet
    /\ CsvQuiet /\ LookupQuiet /\ WhiteQuiet /\ BulkQuiet
SpecReg == InitReg /\ [][RegNext]_vars

InitLookup == LookupInit /\ WalkQuiet /\ GateQuiet /\ LimitQuiet
    /\ StoreQuiet /\ CsvQuiet /\ RegQuiet /\ WhiteQuiet /\ BulkQuiet
SpecLookup == InitLookup /\ [][LookupNext]_vars

InitWhite == WhiteInit /\ WalkQuiet /\ GateQuiet /\ LimitQuiet /\ StoreQuiet
    /\ CsvQuiet /\ RegQuiet /\ LookupQuiet /\ BulkQuiet
SpecWhite == InitWhite /\ [][WhiteNext]_vars

InitMap == MapInit /\ WalkQuiet /\ GateQuiet /\ LimitQuiet /\ StoreQuiet
    /\ RegQuiet /\ LookupQuiet /\ WhiteQuiet /\ BulkQuiet
SpecMap == InitMap /\ [][MapNext]_vars

InitBulk == BulkInit /\ WalkQuiet /\ GateQuiet /\ LimitQuiet /\ StoreQuiet
    /\ CsvQuiet /\ RegQuiet /\ LookupQuiet /\ WhiteQuiet
SpecBulk == InitBulk /\ [][BulkNext]_vars

InitGate == GateInit /\ WalkQuiet /\ LimitQuiet /\ StoreQuiet /\ CsvQuiet
    /\ RegQuiet /\ LookupQuiet /\ WhiteQuiet /\ BulkQuiet
SpecGate == InitGate /\ [][GateNext]_vars

\* ------------------------------------------------------------------ claims

\* Pages the stored token row stands for: the pages before the one it names.
StoredPagesDone ==
    IF tokMem = None THEN 0
    ELSE IF ~IntParses(tokMem[1]) THEN 0
    ELSE PageOfToken(kind, IteratorStart(kind, IntOf(tokMem[1])), npages) - 1

\* C1: idempotent resume.  While fetch errors are the only interruptions of a
\* cursor or watermark walk, the token stored by an error stands for exactly
\* the pages yielded so far, and the items yielded over all invocations are a
\* prefix of P1..Pn in order (no page skipped, none repeated); when a walk
\* completes every item of P1..Pn has been yielded exactly once, so a walk
\* restarted after an error behind Pk yields exactly P(k+1)..Pn.
C1_IdempotentResume ==
    interruptions = {} =>
        /\ IsPrefix(delivered, AllItems(npages))
        /\ (wpc = "raised" => Len(delivered) = PageSize * StoredPagesDone)
        /\ (wpc = "done" => delivered = AllItems(npages))
C1_Witness ==
    /\ interruptions = {}
    /\ wpc = "done"
    /\ npages = 2
    /\ 1 \in errAfter
    /\ delivered = AllItems(2)

\* C2: terminal short-circuit.  An invocation that finds the terminal sentinel
\* stored ends at once: no item yielded, no remote fetch, stored token
\* unchanged.
C2_TerminalShortCircuit ==
    [][(wpc = "idle" /\ wpc' # "idle" /\ tokMem = Some(StrOf(EndToken(kind))))
         => /\ wpc' = "done"
            /\ fetchCalls' = 0
            /\ delivered' = delivered
            /\ tokMem' = tokMem]_vars
C2_Witness ==
    /\ wpc = "done"
    /\ fetchCalls = 0
    /\ invocations >= 2
    /\ delivered # <<>>
    /\ tokMem = Some(StrOf(EndToken(kind)))

C4_ErroredWalkResumable ==
    [][(wpc = "idle" /\ wpc' # "idle" /\ tokMem # None
          /\ tokMem # Some(StrOf(EndToken(kind))))
         => (wpc' # "crashed" /\ fetchCalls' >= 1)]_vars

\* C6: memoized gate convergence.  For a key none of whose evaluates was
\* interrupted and none of whose seen writes was lost to a kill, the decision
\* policy is invoked at most once and the key is in the seen store once an
\* evaluate on it has completed, whatever the decision was; a later evaluate
\* on it returns without the decision, the block action or a Store write.
C6_GateConvergence ==
    /\ [](\A k \in Keys : k \notin disturbed =>
             /\ decideCount[k] <= 1
             /\ (k \in completed => Contains(seenMem, k)))
    /\ [][(evalCount' # evalCount /\ gkey' \in completed
             /\ gkey' \notin disturbed)
            => /\ gpc' = "idle"
               /\ UNCHANGED <<decideCount, blockCount, seenMem, seenDisk,
                              blockedMem, blockedDisk>>]_vars
C6_Witness ==
    /\ gtrace = <<"skip">>
    /\ gkey \in completed
    /\ gkey \notin disturbed
    /\ decideCount[gkey] = 1
    /\ ~Contains(blockedMem, gkey)

\* C7: gate step order.  An evaluate whose decision is true takes its steps in
\* the order block action (skipped when the subject is already blocked),
\* result-row write, seen write; while an evaluate is in progress its key is
\* not in seen, and an evaluate that ends before its seen write (by an error
\* or a kill) leaves the key absent from seen.
C7_GateStepOrder ==
    /\ [](gpc # "idle" => ~Contains(seenMem, gkey))
    /\ []((gpc = "idle" /\ gdecision /\ gtrace # <<>>
             /\ gtrace[Len(gtrace)] = "seen")
            => gtrace = (IF gblocking THEN <<"decide", "record", "seen">>
                         ELSE <<"decide", "block", "record", "seen">>))
    /\ [][(gpc # "idle" /\ gpc' = "idle"
             /\ ~(gtrace' # <<>> /\ gtrace'[Len(gtrace')] = "seen"))
            => ~Contains(seenMem', gkey)]_vars
C7_Witness ==
    /\ gpc = "idle"
    /\ gdecision
    /\ gtrace = <<"decide", "block">>
    /\ blockCount[gkey] = 1
    /\ ~Contains(seenMem, gkey)

\* The budget wait_limit applies to method m.
BudgetNow(m) == BudgetOf(local_rate_limit, api_root, m)

\* C8: sliding-window safety.  For every budgeted method, the n-th recorded
\* admission (n > max_calls) is at least interval later than the
\* (n - max_calls)-th.
C8_SlidingWindow ==
    \A m \in Methods :
        BudgetNow(m) # None =>
            \A n \in 1..Len(admitted[m]) :
                n > BudgetNow(m)[1].limit =>
                    admitted[m][n]
                      >= admitted[m][n - BudgetNow(m)[1].limit]
                           + BudgetNow(m)[1].interval
C8_Witness ==
    /\ BudgetNow("get_followers") # None
    /\ Len(admitted["get_followers"]) = FollowersLimit + 2
    /\ lastMethod = "get_followers"
    /\ lastSleep > 0
    /\ admitted["get_followers"][FollowersLimit + 1]
         = admitted["get_followers"][1] + Interval

\* C9: the limiter blocks only as long as needed.  A wait on a budgeted
\* method records exactly one timestamp, taken after the wait; with fewer
\* than max_calls admissions recorded before it asks for no sleep and the
\* clock does not move; otherwise it asks for exactly
\* max(interval - (now - t), 0), t being the admission max_calls calls back,
\* which is never more than interval.
C9_BoundedWait ==
    [][\A m \in Methods :
         (waitCalls' # waitCalls /\ lastMethod' = m /\ BudgetNow(m) # None)
           => LET limit == BudgetNow(m)[1].limit
                  interval == BudgetNow(m)[1].interval
                  n == Len(admitted[m])
              IN  /\ Len(admitted'[m]) = n + 1
                  /\ SubSeq(admitted'[m], 1, n) = admitted[m]
                  /\ admitted'[m][n + 1] = now'
                  /\ now' >= now + lastSleep'
                  /\ lastSleep' <= interval
                  /\ IF n < limit
                     THEN lastSleep' = 0 /\ now' = now
                     ELSE LET w == interval - (now - admitted[m][n + 1 - limit])
                          IN  lastSleep' = IF w > 0 THEN w ELSE 0
      ]_vars
C9_Witness ==
    /\ BudgetNow("create_block") # None
    /\ lastMethod = "create_block"
    /\ Len(admitted["create_block"]) = 3
    /\ lastSleep = 2
    /\ now = admitted["create_block"][3]

\* C5: a write that has returned survives a process kill: whatever a get
\* returns, in this process or after a kill and restart, is what the last
\* set or delete of that key that returned left there.
C5_WriteSurvivesKill ==
    (lastOp.op = "get" /\ lastOp.status # "ValueError") =>
        /\ (lastOp.status = "ok" =>
                expected[lastOp.store][lastOp.key] = Some(lastOp.val))
        /\ (lastOp.status = "KeyError" =>
                expected[lastOp.store][lastOp.key] = None)

\* C10: a close() of one store never releases the shared connection while
\* another store that has used the connection in this process, and has not
\* been closed, remains.
C10_CloseOnlyByLastStore ==
    [][(lastOp'.op = "close" /\ opCount' # opCount /\ connOpen /\ ~connOpen')
           => used' = {}]_vars

\* C11: transactional import.  When load_csv fails (unreadable or empty
\* file, wrong header, a line with the wrong number of fields) the table
\* holds exactly the rows it held when load_csv was called, the uncommitted
\* ones included, and none of the file's rows.
C11_TransactionalImport ==
    (csvLast.op = "load" /\ csvLast.status = "failed") =>
        csvMem = csvLast.before
\* A failed import that had already inserted a line of the file, called on a
\* table with uncommitted rows.
C11_Witness ==
    /\ csvLast.op = "load"
    /\ csvLast.status = "failed"
    /\ csvLast.dirty
    /\ csvLast.applied > 0
    /\ csvLast.before # {}
    /\ csvMem = csvLast.before

\* C12: round trip.  Loading the file that to_csv wrote into the emptied
\* table gives back exactly the rows that were exported, null cells
\* included.
C12_RoundTrip ==
    (csvLast.op = "load" /\ csvLast.own /\ csvLast.before = {}) =>
        csvMem = csvExported

\* C13: no re-delivery after a crash.  When the only interruptions are kills
\* of a walk suspended at a yield, no item is yielded twice over all the
\* invocations of the walk.
C13_NoRedeliveryAfterKill ==
    (interruptions \subseteq {"kill"} /\ errAfter = {}) =>
        \A i, j \in 1..Len(delivered) :
            i < j => delivered[i] # delivered[j]

\* C14: every error that leaves the generator chain, raised by a page fetch
\* or by the consumer between two yields, finds the walk's current token
\* written to the store.
C14_EveryErrorStoresToken ==
    wpc \in {"raised", "abandoned"} => tokMem = Some(StrOf(cursor_state))

\* C15: in every walk kind a page fetch that fails with an authorization
\* error ends the walk silently; the error is never propagated.
C15_AuthorizationSoftStop == "auth_raised" \notin interruptions

OneRowPerKey(table) ==
    \A r1, r2 \in table : r1.key = r2.key => r1 = r2

\* C16: at most one row per key.  After any sequence of set, delete and
\* load_csv the table and the database file hold at most one row per primary
\* key, and a set leaves exactly the row it wrote under that key and the
\* rows of the other keys as they were (last write wins).
C16_OneRowPerKey ==
    /\ OneRowPerKey(csvMem)
    /\ OneRowPerKey(csvDisk)
    /\ csvLast.op = "set" =>
         \A w \in csvLast.written :
            /\ {r \in csvMem : r.key = w.key} = {w}
            /\ {r \in csvMem : r.key # w.key}
                 = {r \in csvLast.before : r.key # w.key}
\* A set that replaced a row holding another value.
C16_Witness ==
    /\ csvLast.op = "set"
    /\ \E w \in csvLast.written, r \in csvLast.before :
         r.key = w.key /\ r.val # w.val /\ w \in csvMem

\* C17: action guard.  When the decision is true and the subject's blocking
\* flag is set, the step after the decision does not call the block action,
\* and the evaluate that completes has written the result row and the seen
\* key without a block call.
C17_ActionGuard ==
    /\ [][(gpc = "act" /\ gblocking /\ gpc' # "act" /\ gkey' = gkey)
            => (blockCount' = blockCount /\ gpc' \in {"record", "idle"})]_vars
    /\ [][(gpc = "seen" /\ gpc' = "idle" /\ gdecision /\ gblocking
              /\ gtrace' = Append(gtrace, "seen"))
            => /\ gtrace' = <<"decide", "record", "seen">>
               /\ blockCount' = blockCount
               /\ Contains(blockedMem', gkey)
               /\ Contains(seenMem', gkey)]_vars
C17_Witness ==
    /\ gpc = "idle"
    /\ gdecision
    /\ gblocking
    /\ gtrace = <<"decide", "record", "seen">>
    /\ blockCount[gkey] = 0
    /\ Contains(blockedMem, gkey)
    /\ Contains(seenMem, gkey)

\* The method has no budget for this API object: local rate limiting is off,
\* or neither table of the API version names the method.
NoBudget(m) ==
    \/ ~local_rate_limit
    \/ api_root = "/1.1" /\ m \notin DOMAIN API_V11_LIMITS
    \/ api_root = "/2" /\ m \notin DOMAIN API_V2_LIMITS
                       /\ m \notin DOMAIN API_V11_LIMITS

\* C18: admit is a no-op without a budget.  A wait_limit call for a method
\* without budget asks for no sleep, lets no time pass and neither creates
\* nor changes a limiter history.
C18_NoBudgetNoOp ==
    [][(waitCalls' # waitCalls /\ NoBudget(lastMethod'))
         => /\ limits' = limits
            /\ now' = now
            /\ lastSleep' = 0]_vars
\* A call without budget (create_block under API 1.1) made while another
\* method has a history.
C18_Witness ==
    /\ local_rate_limit
    /\ api_root = "/1.1"
    /\ waitCalls > 1
    /\ lastMethod = "create_block"
    /\ DOMAIN limits = {"get_followers"}
    /\ lastSleep = 0

\* C19: admission precedes every page fetch.  Every remote call is preceded,
\* with nothing in between, by an admission for the same method name.
C19_AdmissionPrecedesFetch ==
    \A i \in 1..Len(remote) :
        remote[i].ev = "fetch" =>
            i > 1 /\ remote[i - 1] = Event("admit", remote[i].op)

\* C20: open() is idempotent.  An open() on a store that is already open
\* leaves the reference count of the shared connection as it was.
C20_OpenIdempotent ==
    [][(opCount' # opCount /\ lastOp'.op = "open" /\ lastOp'.status = "ok"
          /\ IsOpen(lastOp'.store))
         => openCount' = openCount]_vars

\* C21: one connection handle per path, opened lazily.  All stores made over
\* the same path are bound to the same Connection object, a path never has
\* more than one live sqlite3 handle, and making a store connects nothing.
C21_OneHandlePerPath ==
    /\ [](\A s1, s2 \in RegStores :
            (sdicts[s1].made /\ sdicts[s2].made
               /\ sdicts[s1].path = sdicts[s2].path)
            => sdicts[s1].obj = sdicts[s2].obj)
    /\ [](\A h1, h2 \in handles : h1.path = h2.path => h1.id = h2.id)
    /\ [][regLast'.op = "construct" =>
            handles' = handles /\ handleSeq' = handleSeq]_vars

\* two stores over one path are both in use and the path has its handle
C21_Witness ==
    \E s1, s2 \in RegStores :
        /\ s1 # s2
        /\ sdicts[s1].made /\ sdicts[s2].made
        /\ sdicts[s1].path = sdicts[s2].path
        /\ sdicts[s1].bound /\ sdicts[s2].bound
        /\ connObjs[sdicts[s1].obj].count >= 2
        /\ \E h \in handles : h.path = sdicts[s1].path
        /\ handleSeq >= 2

\* C22: accessors open on demand from the closed state.  On a store that is
\* closed, never opened or closed by close(), an accessor opens the store and
\* gives its normal result, not an error of the closed store.
C22_AccessorsOpenOnDemand ==
    lastOp.op \in {"get", "set", "delete"} => lastOp.status # "ValueError"

\* C23: delete of an absent key fails with key-not-found and leaves the store
\* as it was.
C23_DeleteAbsentFails ==
    [][\A s \in Stores, k \in StoreKeys :
          (opCount' # opCount /\ lastOp' = Op("delete", s, k, lastOp'.status, 0)
             /\ lastOp'.status # "ValueError" /\ rowsMem[s][k] = None)
          => (lastOp'.status = "KeyError" /\ rowsMem' = rowsMem)]_vars

\* C26: a schema mismatch on open is fatal.  An open of a store whose table
\* exists in the file with a schema other than the declared one raises.
C26_SchemaMismatchFatal ==
    [][\A s \in RegStores :
          (regOps' # regOps /\ regLast'.op = "open"
             /\ regLast'.store = s /\ sdicts[s].bound
             /\ diskSchema[sdicts[s].path] # None
             /\ diskSchema[sdicts[s].path] # Some(sdicts[s].schema))
          => regLast'.status # "ok"]_vars

\* C28: nothing runs ahead of the consumer.  A walk that was made and not yet
\* asked for an item has issued no remote call; a remote call is issued only
\* in a step in which the consumer asks for an item, and the call for the
\* next page only when the last item handed out was the last one of the
\* current page.
C28_NothingAheadOfConsumer ==
    /\ [](wpc = "idle" => fetchCalls = 0)
    /\ [][fetchCalls' > fetchCalls =>
            \/ wpc = "idle"
            \/ /\ wpc = "yield" /\ fetchCalls' = fetchCalls + 1
               /\ idx = PageSize
               /\ delivered[Len(delivered)] = <<cur_page, PageSize>>]_vars

\* the second page has been fetched in one run of the walk
C28_Witness ==
    /\ wpc = "yield"
    /\ fetchCalls = 2
    /\ cur_page = 2
    /\ delivered[Len(delivered)] = <<2, 1>>

\* C29: the page index is monotonic and resumes on chunk boundaries.  In the
\* user-lookup walk the page index starts at 0, changes only by +1 and only
\* when every item of the chunk in hand has been handed out, and a walk made
\* at page index p requests the chunks at offsets p * page_size,
\* (p + 1) * page_size, ... in that order.
C29_PageIndexMonotonic ==
    /\ [](lkWalks = 0 => page_state = 0)
    /\ [][page_state' # page_state =>
            /\ page_state' = page_state + 1
            /\ lkChunk # -1 /\ lkResp = <<>>
            /\ LET r == Returned(Slice(users, lkChunk, lkChunk + page_size))
               IN  /\ Len(lkOut) >= Len(r)
                   /\ SubSeq(lkOut, Len(lkOut) - Len(r) + 1, Len(lkOut)) = r]_vars
    /\ [](\A i \in 1..Len(lkFetched) :
            lkFetched[i] = (lkStart + i - 1) * page_size)

\* a walk made at a page index above 0 has requested its first chunk and
\* handed out an item of it
C29_Witness ==
    /\ lkWalks >= 2
    /\ lkStart >= 1
    /\ lkFetched # <<>>
    /\ lkpc = "yield"
    /\ lkOut # <<>>

\* C30: should_block_user returns false whenever the account is verified, is
\* followed by the caller, was sent a follow request or has a friendship with
\* the caller (each unless its keyword is given as false), or has a
\* friendship with a whitelisted account, and true otherwise; and no
\* friendship lookup is issued when an earlier condition whitelists.
C30_ShouldBlockUser ==
    shpc = "returned" =>
        LET on(k) == kwds[k] # Some(FALSE)
            friend(r) == r.following \/ r.followed_by
            early == \/ on("whitelist_verified") /\ user.verified
                     \/ on("whitelist_following") /\ user.following
                     \/ on("whitelist_follow_request_sent")
                          /\ user.follow_request_sent
            byMe == on("whitelist_friendship") /\ friend(relMe)
        IN  /\ result = ~(\/ early
                          \/ byMe
                          \/ \E i \in 1..Len(whitelist) : friend(whitelist[i]))
            /\ early => lookups = <<>>
            /\ (~early /\ byMe) => lookups = <<0>>
            /\ ~on("whitelist_friendship") => \A i \in 1..Len(lookups) :
                                                  lookups[i] # 0

\* the test has returned true after looking up the caller and two
\* whitelisted accounts, with one keyword switched off
C30_Witness ==
    /\ shpc = "returned"
    /\ result = TRUE
    /\ lookups = <<0, 1, 2>>
    /\ kwds["whitelist_verified"] = Some(FALSE)
    /\ user.verified

\* C24: the store behaves as a map.  get(key) gives the value of the most
\* recent set of the key that no delete followed and signals not-found
\* exactly when there is none; contains(key) is true exactly when get(key)
\* would give a value; a set or delete of one key leaves the rows of the
\* other keys as they were.
C24_MapBehaviour ==
    /\ [](csvLast.op = "get" =>
            /\ csvArg.found <=> csvMap[csvArg.key] # None
            /\ csvArg.found => csvMap[csvArg.key] = Some(csvArg.val)
            /\ csvLast.status = "KeyError" <=> ~csvArg.found)
    /\ [](csvLast.op = "contains" =>
            (csvArg.found <=> csvMap[csvArg.key] # None))
    /\ [][(csvOps' # csvOps /\ csvLast'.op \in {"set", "delete"}) =>
            \A r \in csvMem \cup csvMem' :
                r.key # csvArg'.key => (r \in csvMem /\ r \in csvMem')]_vars

\* a get finds the value of a key in a table of two rows that this run has
\* written to
C24_Witness ==
    /\ csvLast.op = "get"
    /\ csvArg.found
    /\ csvTxn
    /\ csvOps >= 3
    /\ Cardinality(csvMem) = 2

\* C25: load_csv takes a header only when it names the columns of the store
\* in their order; with any other header, one that names the same columns in
\* another order included, the load is rejected and the table is left as it
\* was.
C25_HeaderInOrder ==
    csvLast.op = "load" =>
        /\ csvArg.found <=> csvArg.header = CsvColumns
        /\ ~csvArg.found => (csvLast.status = "failed"
                               /\ csvMem = csvLast.before)

\* a file whose header names the columns in the other order was rejected and
\* the rows of the table are still there
C25_Witness ==
    /\ csvLast.op = "load"
    /\ csvArg.header = <<"value", "key">>
    /\ csvLast.status = "failed"
    /\ csvMem = csvLast.before
    /\ csvMem # {}

\* C25 as stated: a header that names the same set of columns, in any order,
\* is taken.
C25_HeaderBySet ==
    (csvLast.op = "load" /\ HeaderMatches_BySet(csvArg.header, CsvColumns))
        => csvArg.found

\* C27: items() is complete.  When an iteration has ended, every row that was
\* in the table when the scan began and is still in it has been handed out
\* exactly once, whatever get, contains or set calls were made between two
\* pulls.
C27_IterateComplete ==
    csvIt.state = "ended" =>
        \A r \in csvIt.snap \cap csvMem :
            Cardinality({i \in 1..Len(csvIt.out) : csvIt.out[i] = r}) = 1

\* C40: per-operation isolation of the rate limiter.  The history of an
\* operation name never holds more timestamps than its max_calls; an admit
\* for one name leaves the history of every other name as it was, and the
\* sleep it asks for is computed from the history of its own name alone.
C40_PerOperationIsolation ==
    /\ [](\A m \in DOMAIN limits :
            /\ BudgetOf(local_rate_limit, api_root, m) # None
            /\ Len(limits[m]) <=
                 BudgetOf(local_rate_limit, api_root, m)[1].limit)
    /\ [][waitCalls' # waitCalls =>
            LET m == lastMethod'
                b == BudgetOf(local_rate_limit, api_root, m)
                own == IF m \in DOMAIN limits THEN limits[m] ELSE <<>>
            IN  /\ \A x \in DOMAIN limits' \ {m} :
                      x \in DOMAIN limits /\ limits'[x] = limits[x]
                /\ \A x \in Methods \ {m} : admitted'[x] = admitted[x]
                /\ lastSleep' =
                     IF b # None /\ own # <<>> /\ Len(own) = b[1].limit
                        /\ b[1].interval - (now - own[Len(own)]) > 0
                     THEN b[1].interval - (now - own[Len(own)])
                     ELSE 0]_vars

\* an admit had to sleep on its own full history while another name has a
\* history of its own
C40_Witness ==
    /\ lastSleep > 0
    /\ \E x \in DOMAIN limits : x # lastMethod /\ limits[x] # <<>>
    /\ lastMethod \in DOMAIN limits
    /\ waitCalls >= 3

\* C33: reference count of the shared connection.  The count is never
\* negative, the database handle is live exactly when the count is at least
\* 1, and a close on a connection whose handle is not live changes nothing
\* of the connection.
C33_ReferenceCount ==
    /\ [](openCount >= 0 /\ (connOpen <=> openCount >= 1))
    /\ [][(opCount' # opCount /\ lastOp'.op \in {"close", "close_all"}
             /\ ~connOpen)
          => UNCHANGED <<connOpen, openCount, inTxn, tablesMem, tablesDisk,
                         rowsMem, rowsDisk>>]_vars

\* a close has taken the count from 2 to 1 and the handle is still live
C33_Witness ==
    /\ lastOp.op \in {"close", "close_all"}
    /\ connOpen
    /\ openCount = 1
    /\ opCount >= 3

\* C38: an orderly close makes all writes durable.  When close() of a store
\* that is still bound runs while the shared connection is open, every write
\* made so far by every store of the path is committed; and when the process
\* exits in an orderly way and starts again, every store gives the rows last
\* written.
C38_OrderlyCloseDurable ==
    /\ [][(opCount' # opCount /\ lastOp'.op = "close"
             /\ storeConn[lastOp'.store] /\ connOpen)
          => rowsDisk' = rowsMem]_vars
    /\ [][lastOp'.op = "restart" =>
            (rowsDisk' = rowsMem /\ rowsMem' = rowsMem)]_vars

\* a close has committed rows written by both stores
C38_Witness ==
    /\ lastOp.op = "close"
    /\ rowsDisk = rowsMem
    /\ \A s \in Stores : \E k \in StoreKeys : rowsDisk[s][k] # None

\* C38 as stated: the close() of any store, bound or not, that runs while the
\* connection is open commits every write made so far.
C38_AnyCloseCommits ==
    [][(opCount' # opCount /\ lastOp'.op = "close" /\ connOpen)
       => rowsDisk' = rowsMem]_vars

\* C39: a successful load_csv is an upsert.  After a load that succeeded,
\* every key of the file has exactly the row of its last line in the file,
\* and every key that is not in the file has the row it had before.
C39_LoadIsUpsert ==
    (csvLast.op = "load" /\ csvLast.status = "ok") =>
        \A k \in CsvKeys :
            LET at == {i \in 1..Len(csvArg.body) : csvArg.body[i][1] = k}
                last == CHOOSE i \in at : \A j \in at : j <= i
            IN  {r \in csvMem : r.key = k} =
                  IF at = {} THEN {r \in csvLast.before : r.key = k}
                  ELSE {[key |-> k, val |-> Text(csvArg.body[last][2])]}

\* a file with two different lines for one key was loaded into a store that
\* held a row of the other key
C39_Witness ==
    /\ csvLast.op = "load" /\ csvLast.status = "ok"
    /\ Len(csvArg.body) = 2
    /\ csvArg.body[1][1] = csvArg.body[2][1]
    /\ csvArg.body[1] # csvArg.body[2]
    /\ \E r \in csvLast.before : r.key # csvArg.body[1][1]

\* C35: at most one block action per subject across restarts.  For a key none
\* of whose evaluates was interrupted between its block action and its seen
\* write, the block action is invoked at most once.
C35_AtMostOneBlock ==
    \A k \in Keys : k \notin interrupted => blockCount[k] <= 1

\* C36: the gate on a failed action.  When the block action raises an error
\* other than user-not-found, the evaluate ends with that error and neither
\* the result table nor the seen store changes; when it fails with
\* user-not-found the evaluate goes on, and when it ends it has written the
\* result row and the seen key.
C36_FailedAction ==
    /\ [][(gpc = "act" /\ blockCount' # blockCount /\ gaction' = "error")
          => /\ gpc' = "idle"
             /\ gkey \in disturbed'
             /\ UNCHANGED <<seenMem, seenDisk, blockedMem, blockedDisk>>]_vars
    /\ [][(gpc = "act" /\ blockCount' # blockCount
             /\ gaction' = "not_found")
          => gpc' = "record"]_vars
    /\ [][(gpc = "seen" /\ gpc' = "idle" /\ gtrace' = Append(gtrace, "seen")
             /\ gdecision /\ gaction = "not_found")
          => (Contains(blockedMem', gkey) /\ Contains(seenMem', gkey))]_vars

\* an evaluate whose block action failed with user-not-found has ended with
\* both writes
C36_Witness ==
    /\ gpc = "idle"
    /\ gtrace = <<"decide", "block", "record", "seen">>
    /\ gaction = "not_found"
    /\ Contains(blockedMem, gkey)
    /\ Contains(seenMem, gkey)

\* C37: result keys are seen keys.  When no evaluate is in progress, every
\* key with a row in the result table is in the seen store.
C37_ResultKeysSeen ==
    gpc = "idle" => \A r \in blockedMem : Contains(seenMem, r.key)

\* C34: soft stop marks the subject finished.  When a follower walk or a
\* timeline walk ends because a page request fails with an authorization
\* error, at the first page or a later one, the walk ends normally and the
\* token it stores is the terminal sentinel; an invocation that reads that
\* token issues no request and delivers nothing.
C34_SoftStopIsTerminal ==
    /\ [][(kind \in {"followers", "tweets"}
             /\ (interruptions' \ interruptions)
                   \cap {"auth", "auth_raised"} # {})
          => /\ wpc' = "done"
             /\ tokMem' = Some(StrOf(EndToken(kind)))
             /\ fetchCalls' = fetchCalls + 1]_vars
    /\ [][(kind \in {"followers", "tweets"}
             /\ "auth" \in interruptions
             /\ tokMem = Some(StrOf(EndToken(kind)))
             /\ invocations' = invocations + 1)
          => /\ wpc' = "done"
             /\ fetchCalls' = 0
             /\ delivered' = delivered
             /\ tokMem' = tokMem]_vars

\* a walk was stopped by an authorization error after its first page, and a
\* later invocation has ended without a request although a page is missing
C34_Witness ==
    /\ kind \in {"followers", "tweets"}
    /\ interruptions = {"auth"}
    /\ npages = 2
    /\ Len(delivered) = PageSize
    /\ invocations = 2
    /\ wpc = "done"
    /\ fetchCalls = 0
    /\ tokMem = Some(StrOf(EndToken(kind)))

\* C32: eventual completion under transient failures.  When the page requests
\* fail with connection errors only, finitely many times, as_daemon's loop
\* eventually returns normally with the subject's token stored as the
\* terminal sentinel.
C32_EventualCompletion ==
    <>(wpc = "returned" /\ tokMem = Some(StrOf(EndToken(kind))))

====
